---- MODULE Spec2Model ----
(***************************************************************************)
(* Submission orchestration pipeline of the contest CI bot.                *)
(*                                                                         *)
(* The control loop is main() of src/main.py: one repository, one judge    *)
(* account.  Every tick it fetches the remote, reads the tracked branches  *)
(* from the commit-config at the tip of PRIMARY_BRANCH and, per branch     *)
(* with a new commit, runs: read config -> reset working copy -> compile   *)
(* gate -> submit -> wait_for_results -> (conditional) perform_auto_merge  *)
(* -> save the last processed commit.                                      *)
(*                                                                         *)
(* The environment is the git remote (RemotePush), the judge (the answers  *)
(* of submit and fetch_test_results), the outcome of every git command,    *)
(* and the operator who kills and restarts the process.                    *)
(*                                                                         *)
(* Spec is the control loop.  LibSpec applies the functions of the modular *)
(* files (tenant configuration, primary-branch lookup, the compile gates   *)
(* of main.py and of handlers/compilation_manager.py) to drawn inputs.     *)
(* CmpSpec is a sequence of calls of results_utils.compare_results on one  *)
(* contest.  ToolSpec applies create_zip_files, fetch_test_results and the *)
(* gate-to-submission part of main() to one drawn call each.               *)
(***************************************************************************)
EXTENDS Integers, Sequences, FiniteSets, TLC

\* ------------------------------------------------------------------ bounds
\* Number of pushes the git remote receives from outside during a run.
MaxPushes == 1
\* Number of merge commits the bot pushes to the primary branch during a run.
MaxMerges == 1
\* Number of times the process is killed from outside during a run.
MaxKills == 1
\* Number of bundles (zip_files entries) of a commit-config.
MaxBundles == 2

\* --------------------------------------------------------------- constants
PRIMARY_BRANCH == "master"
NoCommit == "none"
\* "gone" is a branch the config tracks and the remote does not have
Branches == {"master", "gone", "submit"}
\* c1, c2: commits with a config (AUTOCOMMIT, auto_merge_branch = submit);
\* c3: a commit without submission_config.json;
\* c4: a commit whose config has neither AUTOCOMMIT nor branches.
BaseCommits == {"c1", "c2", "c3", "c4"}
\* ids of the merge commits the bot creates on the primary branch
MergeIds == <<"m1", "m2", "m3">>
MergeCommits == {MergeIds[k] : k \in 1..Len(MergeIds)}
Commits == BaseCommits \cup MergeCommits

\* The content of submission_config.json at a commit (None: no such file).
\* present = FALSE stands for load_config_from_commit returning None.
\* has_branches = FALSE stands for a config without the key "branches";
\* AUTOCOMMIT is config.get("AUTOCOMMIT", False).

\* load_config_from_commit: the config is a function of the commit; a merge
\* commit carries the config of the branch that was merged.
load_config_from_commit(c) ==
  IF c = "c3"
  THEN [present |-> FALSE, AUTOCOMMIT |-> FALSE, auto_merge_branch |-> "none",
        has_branches |-> FALSE, branches |-> << >>]
  ELSE IF c = "c4"
  THEN [present |-> TRUE, AUTOCOMMIT |-> FALSE, auto_merge_branch |-> "none",
        has_branches |-> FALSE, branches |-> << >>]
  ELSE [present |-> TRUE, AUTOCOMMIT |-> TRUE, auto_merge_branch |-> "submit",
        has_branches |-> TRUE, branches |-> <<"master", "gone", "submit">>]

\* ------------------------------------------------------------ graded results
\* fetch_test_results returns None (not graded, or the fetch failed), a dict
\* {"error": text}, or a dict of groups holding tests with a verdict string.
NoResult == [kind |-> "none", verdicts |-> << >>]
ErrorResult == [kind |-> "error", verdicts |-> << >>]
TestResult(vs) == [kind |-> "tests", verdicts |-> vs]
GradedResults ==
  {ErrorResult, TestResult(<<"OK", "OK">>), TestResult(<<"OK", "Wrong answer">>),
   TestResult(<<"OK", "Runtime error">>)}

\* "error" in test["result"].lower()
ContainsError(v) == v \in {"Runtime error"}
\* test["result"].lower() == "ok"
IsOk(v) == v \in {"OK"}


\* -------------------------------------------------------------------- state
VARIABLES
  pc,                     \* position of main(): "loop", "for", ..., "down"
  exception,              \* the exception that ended the process, or "none"
  remote,                 \* branch -> tip on the git remote
  origin,                 \* branch -> remote-tracking ref origin/<branch>
  localBr,                \* branch -> tip of the local branch
  mergeInProgress,        \* the working copy holds an uncommitted merge
  last_commit_per_branch, \* watch state, saved to LAST_COMMITS_FILE
  branches_to_check,      \* rest of the list the for loop iterates
  branch,                 \* loop variable of the for loop
  current_commit,         \* get_latest_commit(branch)
  submission_id,          \* local of main(): "none" or "S" (acknowledged)
  grouped_results,        \* the result the judge gave for submission_id
  polls,                  \* fetches made by the running wait_for_results
  gitLog,                 \* git commands of the running perform_auto_merge
  notified,               \* messages sent by the running perform_auto_merge
  mergeSource,            \* commit merged into the working copy of primary
  submitted,              \* commit -> submissions the judge acknowledged
  outstanding,            \* acknowledged submissions with no result retrieved
  pushes, nmerges, kills, \* counters of the bounded environment
  chat_config,            \* the tenant's entry of data/config.json, or None
  primary_used,           \* primary branch last used by discovery and merge
  gate,                   \* a call of check_for_compiler_errors and its result
  pack,                   \* a call of create_zip_files for one include-path
  submission_history,     \* the tenant's stored entry of the contest
  prev_data,              \* the stored entry the last compare_results read
  graded,                 \* the result given to the last compare_results
  comparison,             \* the summary the last compare_results returned
  calls,                  \* calls of compare_results made so far
  report,                 \* a call of fetch_test_results on a report table
  handling,               \* main() from the compile gate to the submission
  message,                \* a call of send_message on a text of some lines
  store,                  \* data/last_commits.json, data/submission_history.json
  bot,                    \* data/config.json, the key files, the conversation
  shutdown_flag,          \* main.py 31: set by handle_shutdown_signal
  fetch_fails             \* the judge answers the fetch of the report with an
                          \* HTTP error or with a page that cannot be parsed

durable == <<remote, origin, localBr, mergeInProgress, last_commit_per_branch>>
locals ==
  <<branches_to_check, branch, current_commit, submission_id, grouped_results,
    polls, gitLog, notified, mergeSource>>
history == <<submitted, outstanding, pushes, nmerges, kills>>
mainvars == <<pc, exception, durable, locals, history>>
gatevars == <<chat_config, primary_used, gate>>
cmpvars == <<submission_history, prev_data, graded, comparison, calls>>
botvars == <<message, store, bot, shutdown_flag, fetch_fails>>
toolvars == <<pack, cmpvars, report, handling, botvars>>
libvars == <<gatevars, toolvars>>
vars == <<mainvars, libvars>>

MergePcs ==
  {"m_fetch", "m_reset", "m_checkout", "m_pull", "m_merge", "m_abort",
   "m_commit", "m_push", "m_ret"}

\* the counters that observe the run tell 0, 1 and "2 or more" apart
Sat(n) == IF n < 2 THEN n + 1 ELSE 2

\* load_chat_config returns None for a chat without an entry
NoChatConfig == [x \in {} |-> "none"]
NoPrimary == [tracked |-> "none", merge |-> "none"]
\* no call of the compile gate is under way
IdleGate ==
  [impl |-> "none", language |-> "none", ALLOW_WARNINGS |-> FALSE,
   ALLOW_ERRORS |-> FALSE, bundles |-> << >>, done |-> FALSE, pass |-> FALSE,
   compiled |-> 0, messages |-> 0, raised |-> FALSE]
\* a path: absolute or relative to the working directory, and its components
Path(abs, parts) == [abs |-> abs, parts |-> parts]
\* no call of create_zip_files is under way
IdlePack ==
  [impl |-> "none", source |-> Path(FALSE, << >>), done |-> FALSE,
   added |-> {}]

\* no commit is between the compile gate and the submission
IdleHandling ==
  [ALLOW_WARNINGS |-> FALSE, ALLOW_ERRORS |-> FALSE, bundles |-> << >>,
   has_key |-> FALSE, accepted |-> FALSE, started |-> FALSE, done |-> FALSE,
   failure |-> "none", notifications |-> 0]
\* no report table has been parsed
IdleReport ==
  [rows |-> << >>, done |-> FALSE, kind |-> "none",
   groups |-> [k \in {} |-> << >>]]
\* max(..., default=None): the group has no solved test
NoTest == [test_name |-> "none", result |-> "none", runtime |-> 0]
\* contest_id is not in the history of the tenant
NoHistory ==
  [present |-> FALSE, successful_tests |-> 0, total_runtime |-> 0,
   group_results |-> [g \in {} |-> NoTest]]
\* no result has been compared yet
NoGraded == [kind |-> "none", groups |-> [g \in {} |-> {}]]
NoComparison ==
  [top |-> "none", diff_successful |-> 0, diff_runtime |-> 0,
   group_changes |-> [g \in {} |-> "none"], first_note |-> FALSE]
\* the files of the state store do not exist; nothing was written
NoStore ==
  [on |-> FALSE, n |-> 0, last_commits |-> [t \in {} |-> 0],
   histories |-> [t \in {} |-> 0],
   wrote |-> [kind |-> "none", chat_id |-> 0, key |-> 0, value |-> 0]]
\* data/config.json does not exist, no command has been sent to the bot
NoBot ==
  [on |-> FALSE, configs |-> [t \in {} |-> 0], files |-> {},
   state |-> "None", config_step |-> "None", log |-> << >>]
\* no text is being sent, no command of the bot has been handled
BotIdle ==
  /\ message = [lines |-> << >>, done |-> FALSE, parts |-> << >>]
  /\ store = NoStore
  /\ bot = NoBot
  /\ shutdown_flag = FALSE
  /\ fetch_fails = FALSE

CmpIdle ==
  /\ submission_history = NoHistory
  /\ prev_data = NoHistory
  /\ graded = NoGraded
  /\ comparison = NoComparison
  /\ calls = 0

\* load_last_commits() at import and the initial clone: nothing processed
\* yet, the clone mirrors the remote: c1 on the primary branch, c2 on submit.
Init ==
  /\ pc = "loop"
  /\ exception = "none"
  /\ remote = [b \in Branches |->
                 IF b = PRIMARY_BRANCH THEN "c1"
                 ELSE IF b = "submit" THEN "c2" ELSE NoCommit]
  /\ origin = remote
  /\ localBr = remote
  /\ mergeInProgress = FALSE
  /\ last_commit_per_branch = [b \in Branches |-> NoCommit]
  /\ branches_to_check = << >>
  /\ branch = "none"
  /\ current_commit = NoCommit
  /\ submission_id = "none"
  /\ grouped_results = NoResult
  /\ polls = 0
  /\ gitLog = << >>
  /\ notified = 0
  /\ mergeSource = NoCommit
  /\ submitted = [c \in Commits |-> 0]
  /\ outstanding = {}
  /\ pushes = 0
  /\ nmerges = 0
  /\ kills = 0
  /\ chat_config = NoChatConfig
  /\ primary_used = NoPrimary
  /\ gate = IdleGate
  /\ pack = IdlePack
  /\ CmpIdle
  /\ report = IdleReport
  /\ handling = IdleHandling
  /\ BotIdle

\* the locals of one iteration of the for loop go out of use
ClearIteration ==
  /\ branch' = "none"
  /\ current_commit' = NoCommit
  /\ submission_id' = "none"
  /\ grouped_results' = NoResult
  /\ polls' = 0
  /\ gitLog' = << >>
  /\ notified' = 0
  /\ mergeSource' = NoCommit

\* RaiseUncaught as it would be if the watch state were saved on the way out
\* (a save in the finally clause)
RaiseUncaughtSaving(e) ==
  /\ pc' = "down"
  /\ exception' = e
  /\ branches_to_check' = << >>
  /\ ClearIteration
  /\ last_commit_per_branch' =
       IF branch \in Branches
       THEN [last_commit_per_branch EXCEPT ![branch] = current_commit]
       ELSE last_commit_per_branch

\* an exception nobody catches leaves main(): the process ends; what was
\* saved to disk stays, everything in memory is gone.
RaiseUncaught(e) ==
  /\ pc' = "down"
  /\ exception' = e
  /\ branches_to_check' = << >>
  /\ ClearIteration
  /\ UNCHANGED last_commit_per_branch

\* MarkProcessed leaving the for loop (break) instead of going on with the
\* next branch (continue)
MarkProcessedBreak ==
  /\ last_commit_per_branch' =
       [last_commit_per_branch EXCEPT ![branch] = current_commit]
  /\ pc' = "for"
  /\ ClearIteration
  /\ branches_to_check' = << >>
  /\ UNCHANGED exception

\* last_commit_per_branch[branch] = current_commit; save_last_commits(...);
\* then the for loop goes on with the next branch.
MarkProcessed ==
  /\ last_commit_per_branch' =
       [last_commit_per_branch EXCEPT ![branch] = current_commit]
  /\ pc' = "for"
  /\ ClearIteration
  /\ UNCHANGED <<exception, branches_to_check>>

\* get_tracked_branches(): the branches of the config at origin/PRIMARY_BRANCH,
\* else [PRIMARY_BRANCH]
get_tracked_branches(org) ==
  LET c == org[PRIMARY_BRANCH]
      config == load_config_from_commit(c)
  IN  IF c # NoCommit /\ config.present /\ config.has_branches
      THEN config.branches
      ELSE <<PRIMARY_BRANCH>>

\* the messages get_tracked_branches() sends to the user: the warning of
\* get_latest_commit when origin/PRIMARY_BRANCH cannot be resolved, the
\* message of load_config_from_commit when the file is not in the commit;
\* nothing is sent for a config without "branches".
get_tracked_branches_messages(org) ==
  LET c == org[PRIMARY_BRANCH]
      config == load_config_from_commit(c)
  IN  IF c = NoCommit THEN 1
      ELSE IF ~config.present THEN 1
      ELSE 0

\* main.py 821-826 and 159-167: the warnings get_latest_commit sends to the
\* user, over the branches the for loop visits, one for every branch whose
\* origin/<branch> cannot be resolved
RECURSIVE for_loop_messages(_, _)
for_loop_messages(org, branches) ==
  IF branches = << >> THEN 0
  ELSE (IF org[Head(branches)] = NoCommit THEN 1 ELSE 0)
         + for_loop_messages(org, Tail(branches))

\* while not shutdown_flag: fetch_all_branches(); get_tracked_branches()
TickStart ==
  /\ pc = "loop"
  /\ ~shutdown_flag
  /\ \E fetchOk \in BOOLEAN :
       /\ origin' = IF fetchOk THEN remote ELSE origin
       /\ branches_to_check' = get_tracked_branches(origin')
  /\ pc' = "for"
  /\ UNCHANGED <<exception, remote, localBr, mergeInProgress,
                 last_commit_per_branch, branch, current_commit, submission_id,
                 grouped_results, polls, gitLog, notified, mergeSource, history>>
  /\ UNCHANGED libvars

\* IsNewCommit without the comparison with the watch state
IsNewCommitAlways(b, c) == TRUE

\* IsNewCommit without the case of a branch that has no watch state yet
IsNewCommitKnownBranch(b, c) ==
  last_commit_per_branch[b] # NoCommit /\ last_commit_per_branch[b] # c

\* branch not in last_commit_per_branch or current_commit != last[branch]
IsNewCommit(b, c) == last_commit_per_branch[b] # c

\* for branch in branches_to_check: get_latest_commit; skip a missing branch
\* and a branch without a new commit
NextBranch ==
  /\ pc = "for"
  /\ branches_to_check # << >>
  /\ LET b == Head(branches_to_check)
         c == origin[b]
     IN  /\ branches_to_check' = Tail(branches_to_check)
         /\ IF c # NoCommit /\ IsNewCommit(b, c)
            THEN /\ pc' = "new_commit"
                 /\ branch' = b
                 /\ current_commit' = c
            ELSE /\ pc' = "for"
                 /\ UNCHANGED <<branch, current_commit>>
  /\ UNCHANGED <<exception, durable, submission_id, grouped_results, polls,
                 gitLog, notified, mergeSource, history>>
  /\ UNCHANGED libvars

\* the for loop is exhausted: time.sleep(CHECK_INTERVAL)
EndTick ==
  /\ pc = "for"
  /\ branches_to_check = << >>
  /\ pc' = "loop"
  /\ UNCHANGED <<exception, durable, locals, history>>
  /\ UNCHANGED libvars

\* HandleNewCommit with a skip test that looks only at the presence of the
\* config (`if not config:`), not at AUTOCOMMIT
HandleNewCommitIgnoringAutocommit ==
  /\ pc = "new_commit"
  /\ \E logOk, resetOk \in BOOLEAN :
       LET config == load_config_from_commit(current_commit) IN
       IF ~logOk
       THEN RaiseUncaught("CalledProcessError")
       ELSE IF ~config.present
       THEN MarkProcessed
       ELSE IF ~resetOk
       THEN RaiseUncaught("CalledProcessError")
       ELSE /\ pc' = "compile"
            /\ UNCHANGED <<exception, last_commit_per_branch, locals>>
  /\ UNCHANGED <<remote, origin, localBr, mergeInProgress, history>>
  /\ UNCHANGED libvars

\* main.py 829-861: git log, the "new commit" message, the config of the
\* commit, the explicit skip, reset_to_commit
HandleNewCommit ==
  /\ pc = "new_commit"
  /\ \E logOk, resetOk \in BOOLEAN :
       LET config == load_config_from_commit(current_commit) IN
       IF ~logOk
       THEN RaiseUncaught("CalledProcessError")
       ELSE IF ~config.present \/ ~config.AUTOCOMMIT
       THEN MarkProcessed
       ELSE IF ~resetOk
       THEN RaiseUncaught("CalledProcessError")
       ELSE /\ pc' = "compile"
            /\ UNCHANGED <<exception, last_commit_per_branch, locals>>
  /\ UNCHANGED <<remote, origin, localBr, mergeInProgress, history>>
  /\ UNCHANGED libvars

\* main.py 863-876: check_for_compiler_errors(config)
CompileGate ==
  /\ pc = "compile"
  /\ \E pass \in BOOLEAN :
       IF pass
       THEN /\ pc' = "submit"
            /\ UNCHANGED <<exception, last_commit_per_branch, locals>>
       ELSE MarkProcessed
  /\ UNCHANGED <<remote, origin, localBr, mergeInProgress, history>>
  /\ UNCHANGED libvars

\* Submit with a failed submission left unmarked: the for loop goes on and
\* the watch state of the branch stays where it was
SubmitRetrying ==
  /\ pc = "submit"
  /\ \E accepted \in BOOLEAN :
       IF accepted
       THEN /\ submission_id' = "S"
            /\ submitted' =
                 [submitted EXCEPT ![current_commit] = Sat(submitted[current_commit])]
            /\ outstanding' = outstanding \cup {current_commit}
            /\ pc' = "wait"
            /\ UNCHANGED <<exception, last_commit_per_branch, branches_to_check,
                           branch, current_commit, grouped_results, polls,
                           gitLog, notified, mergeSource>>
       ELSE /\ pc' = "for"
            /\ ClearIteration
            /\ UNCHANGED <<exception, last_commit_per_branch,
                           branches_to_check, submitted, outstanding>>
  /\ UNCHANGED <<remote, origin, localBr, mergeInProgress, pushes,
                 nmerges, kills>>
  /\ UNCHANGED libvars

\* main.py 878-884: create_zip_files, submit_solution; None when the judge
\* rejects the submission, the API key is missing or the request fails
Submit ==
  /\ pc = "submit"
  /\ \E accepted \in BOOLEAN :
       IF accepted
       THEN /\ submission_id' = "S"
            /\ submitted' =
                 [submitted EXCEPT ![current_commit] = Sat(submitted[current_commit])]
            /\ outstanding' = outstanding \cup {current_commit}
            /\ pc' = "wait"
            /\ UNCHANGED <<exception, last_commit_per_branch, branches_to_check,
                           branch, current_commit, grouped_results, polls,
                           gitLog, notified, mergeSource>>
       ELSE /\ MarkProcessed
            /\ UNCHANGED <<submitted, outstanding>>
  /\ UNCHANGED <<remote, origin, localBr, mergeInProgress, pushes,
                 nmerges, kills>>
  /\ UNCHANGED libvars


\* main.py 527-537 and 885: wait_for_results polls fetch_test_results until it
\* returns a result; None (not graded yet, or the fetch failed: the except
\* clause of fetch_test_results returns None) makes it sleep and fetch again.
\* A result goes to send_results_summary_to_telegram.
WaitForResults ==
  /\ pc = "wait"
  /\ \E r \in (IF fetch_fails THEN {} ELSE GradedResults) \cup {NoResult} :
       IF r = NoResult
       THEN /\ polls' = Sat(polls)
            /\ UNCHANGED <<pc, exception, last_commit_per_branch,
                           branches_to_check, branch, current_commit,
                           submission_id, grouped_results, gitLog, notified,
                           mergeSource, outstanding>>
       ELSE /\ outstanding' = outstanding \ {current_commit}
            /\ IF branch = load_config_from_commit(current_commit).auto_merge_branch
               THEN /\ pc' = "check_merge"
                    /\ grouped_results' = r
                    /\ polls' = Sat(polls)
                    /\ UNCHANGED <<exception, last_commit_per_branch,
                                   branches_to_check, branch, current_commit,
                                   submission_id, gitLog, notified, mergeSource>>
               ELSE MarkProcessed
  /\ UNCHANGED <<remote, origin, localBr, mergeInProgress, submitted,
                 pushes, nmerges, kills>>
  /\ UNCHANGED libvars

\* the merge decision without the look at the verdicts
MergeAllowedAnyVerdict(r) == r.kind = "tests"

\* main.py 892-896: the condition under which perform_auto_merge is called,
\* grouped_results and not any("error" in test["result"].lower() ...)
MergeAllowed(r) ==
  /\ r.kind = "tests"
  /\ \A i \in 1..Len(r.verdicts) : ~ContainsError(r.verdicts[i])

\* main.py 887-902: the report is fetched a second time; iterating the groups
\* of {"error": text} indexes a string with "tests" and raises TypeError,
\* which nothing catches (the try has only a finally).
CheckAutoMerge ==
  /\ pc = "check_merge"
  /\ \E r \in {NoResult, grouped_results} :
       IF r.kind = "error"
       THEN RaiseUncaught("TypeError")
       ELSE IF r # NoResult /\ MergeAllowed(r)
       THEN /\ pc' = "m_fetch"
            /\ gitLog' = << >>
            /\ notified' = 0
            /\ UNCHANGED <<exception, last_commit_per_branch, branches_to_check,
                           branch, current_commit, submission_id,
                           grouped_results, polls, mergeSource>>
       ELSE MarkProcessed
  /\ UNCHANGED <<remote, origin, localBr, mergeInProgress, history>>
  /\ UNCHANGED libvars

\* ------------------------------------------- perform_auto_merge (main.py)
Issue(cmd, outcome) == gitLog' = Append(gitLog, <<cmd, outcome>>)
Notify == notified' = Sat(notified)
MergeFrame ==
  UNCHANGED <<exception, last_commit_per_branch, branches_to_check, branch,
              current_commit, submission_id, grouped_results, polls,
              submitted, outstanding, pushes, kills>>

\* Step 1: git fetch origin <branch>
MergeFetch ==
  /\ pc = "m_fetch"
  /\ \E ok \in BOOLEAN :
       IF ok
       THEN /\ Issue("fetch", "ok")
            /\ origin' = [origin EXCEPT ![branch] = remote[branch]]
            /\ pc' = "m_reset"
            /\ UNCHANGED notified
       ELSE /\ Issue("fetch", "fail")
            /\ Notify
            /\ pc' = "m_ret"
            /\ UNCHANGED origin
  /\ MergeFrame
  /\ UNCHANGED <<remote, localBr, mergeInProgress, mergeSource, nmerges>>
  /\ UNCHANGED libvars

\* git checkout -B <branch> origin/<branch>: the local branch reset at the
\* remote-tracking tip instead of the given commit
CheckoutBAtTip(b, c) == [localBr EXCEPT ![b] = origin[b]]

\* git checkout -B <branch> <commit_hash>: the local branch is created or
\* reset at the given commit
CheckoutB(b, c) == [localBr EXCEPT ![b] = c]

\* Step 2: reset the submit branch to the judged commit
MergeReset ==
  /\ pc = "m_reset"
  /\ \E ok \in BOOLEAN :
       IF ok
       THEN /\ Issue("checkout -B", "ok")
            /\ localBr' = CheckoutB(branch, current_commit)
            /\ pc' = "m_checkout"
            /\ UNCHANGED notified
       ELSE /\ Issue("checkout -B", "fail")
            /\ Notify
            /\ pc' = "m_ret"
            /\ UNCHANGED localBr
  /\ MergeFrame
  /\ UNCHANGED <<remote, origin, mergeInProgress, mergeSource, nmerges>>
  /\ UNCHANGED libvars

\* Step 3: git checkout PRIMARY_BRANCH (check=True; CalledProcessError is
\* caught by the except clause, which notifies)
MergeCheckout ==
  /\ pc = "m_checkout"
  /\ \E ok \in BOOLEAN :
       IF ok
       THEN /\ Issue("checkout", "ok")
            /\ pc' = "m_pull"
            /\ UNCHANGED notified
       ELSE /\ Issue("checkout", "fail")
            /\ Notify
            /\ pc' = "m_ret"
  /\ MergeFrame
  /\ UNCHANGED <<remote, origin, localBr, mergeInProgress, mergeSource,
                 nmerges>>
  /\ UNCHANGED libvars

\* Step 4: git pull origin PRIMARY_BRANCH
MergePull ==
  /\ pc = "m_pull"
  /\ \E ok \in BOOLEAN :
       IF ok
       THEN /\ Issue("pull", "ok")
            /\ origin' = [origin EXCEPT ![PRIMARY_BRANCH] = remote[PRIMARY_BRANCH]]
            /\ localBr' = [localBr EXCEPT ![PRIMARY_BRANCH] = remote[PRIMARY_BRANCH]]
            /\ pc' = "m_merge"
            /\ UNCHANGED notified
       ELSE /\ Issue("pull", "fail")
            /\ Notify
            /\ pc' = "m_ret"
            /\ UNCHANGED <<origin, localBr>>
  /\ MergeFrame
  /\ UNCHANGED <<remote, mergeInProgress, mergeSource, nmerges>>
  /\ UNCHANGED libvars

\* The ways git merge --no-commit --no-ff <branch> can end.  ok: return code
\* 0, the merge is staged and not committed.  conflict_stdout, conflict_stderr:
\* return code 1, a line "CONFLICT (...)" on that stream, the merge left in
\* progress with unmerged paths (git writes the line to stdout).  fail: a
\* non-zero return code without a conflict report, nothing staged.

\* AfterMerge taking every merge for a conflict: the merge is always aborted
AfterMergeAborting(outcome) == "m_abort"

\* main.py 759-776: stdout and stderr are captured, the return code is not
\* looked at; only `"CONFLICT" in merge_result.stderr` decides
AfterMerge(outcome) ==
  IF outcome = "conflict_stderr" THEN "m_abort" ELSE "m_commit"

\* Step 5: the merge of the local submit branch into the checked-out primary
MergeMerge ==
  /\ pc = "m_merge"
  /\ \E outcome \in {"ok", "conflict_stdout", "conflict_stderr", "fail"} :
       /\ Issue("merge", outcome)
       /\ mergeInProgress' = (outcome # "fail")
       /\ mergeSource' = IF outcome = "ok" THEN localBr[branch] ELSE NoCommit
       /\ pc' = AfterMerge(outcome)
       /\ IF pc' = "m_abort" THEN Notify ELSE UNCHANGED notified
  /\ MergeFrame
  /\ UNCHANGED <<remote, origin, localBr, nmerges>>
  /\ UNCHANGED libvars

\* git merge --abort (check=True) after a reported conflict, then return
MergeAbort ==
  /\ pc = "m_abort"
  /\ \E ok \in BOOLEAN :
       IF ok
       THEN /\ Issue("merge --abort", "ok")
            /\ mergeInProgress' = FALSE
            /\ UNCHANGED notified
       ELSE /\ Issue("merge --abort", "fail")
            /\ Notify
            /\ UNCHANGED mergeInProgress
  /\ pc' = "m_ret"
  /\ MergeFrame
  /\ UNCHANGED <<remote, origin, localBr, mergeSource, nmerges>>
  /\ UNCHANGED libvars

\* Step 6: git commit -m ... (check=True; CalledProcessError is caught and
\* notified).  It can only succeed on a staged merge without unmerged paths;
\* it creates the merge commit on the local primary branch.
MergeCommit ==
  /\ pc = "m_commit"
  /\ \E ok \in BOOLEAN :
       IF ok /\ mergeInProgress /\ mergeSource # NoCommit /\ nmerges < MaxMerges
       THEN /\ Issue("commit", "ok")
            /\ nmerges' = nmerges + 1
            /\ localBr' = [localBr EXCEPT ![PRIMARY_BRANCH] = MergeIds[nmerges + 1]]
            /\ mergeInProgress' = FALSE
            /\ pc' = "m_push"
            /\ UNCHANGED notified
       ELSE /\ Issue("commit", "fail")
            /\ Notify
            /\ pc' = "m_ret"
            /\ UNCHANGED <<nmerges, localBr, mergeInProgress>>
  /\ MergeFrame
  /\ UNCHANGED <<remote, origin, mergeSource>>
  /\ UNCHANGED libvars

\* Step 7: git push origin PRIMARY_BRANCH, then the success message
MergePush ==
  /\ pc = "m_push"
  /\ \E ok \in BOOLEAN :
       IF ok
       THEN /\ Issue("push", "ok")
            /\ remote' = [remote EXCEPT ![PRIMARY_BRANCH] = localBr[PRIMARY_BRANCH]]
            /\ origin' = [origin EXCEPT ![PRIMARY_BRANCH] = localBr[PRIMARY_BRANCH]]
       ELSE /\ Issue("push", "fail")
            /\ UNCHANGED <<remote, origin>>
  /\ Notify
  /\ pc' = "m_ret"
  /\ MergeFrame
  /\ UNCHANGED <<localBr, mergeInProgress, mergeSource, nmerges>>
  /\ UNCHANGED libvars

\* perform_auto_merge has returned: main.py 904-910
MergeReturn ==
  /\ pc = "m_ret"
  /\ MarkProcessed
  /\ UNCHANGED <<remote, origin, localBr, mergeInProgress, history>>
  /\ UNCHANGED libvars

\* ------------------------------------------------------------- environment
\* somebody pushes to a branch the remote has
RemotePush ==
  /\ pushes < MaxPushes
  /\ \E b \in Branches, c \in BaseCommits :
       /\ remote[b] # NoCommit
       /\ remote[b] # c
       /\ remote' = [remote EXCEPT ![b] = c]
  /\ pushes' = pushes + 1
  /\ UNCHANGED <<pc, exception, origin, localBr, mergeInProgress,
                 last_commit_per_branch, locals, submitted, outstanding,
                 nmerges, kills>>
  /\ UNCHANGED libvars

\* the process is killed (SIGKILL, power loss, reboot of the host)
Kill ==
  /\ pc # "down"
  /\ kills < MaxKills
  /\ kills' = kills + 1
  /\ RaiseUncaught("killed")
  /\ UNCHANGED <<remote, origin, localBr, mergeInProgress, submitted,
                 outstanding, pushes, nmerges>>
  /\ UNCHANGED libvars

\* the process is started again: module import reads LAST_COMMITS_FILE,
\* main() logs in and enters the loop
Restart ==
  /\ pc = "down"
  /\ pc' = "loop"
  /\ exception' = "none"
  /\ shutdown_flag' = FALSE
  /\ UNCHANGED <<durable, locals, history>>
  /\ UNCHANGED <<gatevars, pack, cmpvars, report, handling, message, store,
                 bot, fetch_fails>>

Next ==
  \/ TickStart \/ NextBranch \/ EndTick \/ HandleNewCommit \/ CompileGate
  \/ Submit \/ WaitForResults \/ CheckAutoMerge
  \/ MergeFetch \/ MergeReset \/ MergeCheckout \/ MergePull \/ MergeMerge
  \/ MergeAbort \/ MergeCommit \/ MergePush \/ MergeReturn
  \/ RemotePush \/ Kill \/ Restart

Spec == Init /\ [][Next]_vars

\* main.py 33-37, 916-917: SIGINT or SIGTERM reaches the running process; the
\* handler sets the flag and the interrupted code goes on
handle_shutdown_signal ==
  /\ pc # "down" /\ ~shutdown_flag
  /\ shutdown_flag' = TRUE
  /\ UNCHANGED <<mainvars, gatevars, pack, cmpvars, report, handling, message,
                 store, bot, fetch_fails>>

\* main.py 815: `while not shutdown_flag` is false; main() returns and the
\* process ends
main_returns ==
  /\ pc = "loop" /\ shutdown_flag
  /\ pc' = "down"
  /\ UNCHANGED <<exception, durable, locals, history, libvars>>

\* main.py 419-421, 471-473 (oioioi.py 145-147, 196-198): from now on
\* session.get or raise_for_status raises for the report of the submission,
\* or the page has neither a table nor an article
report_breaks ==
  /\ pc # "down" /\ ~fetch_fails
  /\ fetch_fails' = TRUE
  /\ UNCHANGED <<mainvars, gatevars, pack, cmpvars, report, handling, message,
                 store, bot, shutdown_flag>>

\* the control loop with the shutdown signal and with a judge that breaks
ShutSpec ==
  Init /\ [][Next \/ handle_shutdown_signal \/ main_returns
                  \/ report_breaks]_vars

\* main() is one sequential process: a step that can be taken is taken.  The
\* pushes and kills of the environment are bounded, so the fairness falls on
\* the steps of main(); for wait_for_results it says that the judge
\* eventually answers the fetch with a result.
FairSpec == Spec /\ WF_vars(Next)



\* ================================================= the modular functions
\* The functions of src/handlers, src/git_manager and src/utils take the
\* tenant (chat_id) as a parameter and are not called by main() of main.py.
\* They are applied here to inputs drawn at the start.

\* ---------------------------------------------------- tenant configuration
ConfiguredNames == {"main", "master", "develop"}

\* dict.get(key, default)
Get(cfg, key, default) == IF key \in DOMAIN cfg THEN cfg[key] ELSE default

\* save_chat_config: existing_data[chat_id].update(config_data)
save_chat_config(cfg, config_data) ==
  [k \in DOMAIN cfg \cup DOMAIN config_data |->
     IF k \in DOMAIN config_data THEN config_data[k] ELSE cfg[k]]

\* complete_setup: the wizard saves the answers, among them the primary
\* branch, under the key "primary_branch"
complete_setup ==
  /\ \E primary_branch \in ConfiguredNames :
       chat_config' =
         save_chat_config(chat_config,
           [primary_branch |-> primary_branch, setup_complete |-> "true"])
  /\ UNCHANGED <<mainvars, primary_used, gate, toolvars>>

\* /config with a key of config_whitelist, here primary_branch; refused by
\* ensure_user_setup before the setup is complete
handle_config_step ==
  /\ Get(chat_config, "setup_complete", "false") = "true"
  /\ \E new_value \in ConfiguredNames :
       /\ new_value # Get(chat_config, "primary_branch", "none")
       /\ chat_config' =
            save_chat_config(chat_config, [primary_branch |-> new_value])
  /\ UNCHANGED <<mainvars, primary_used, gate, toolvars>>

\* global_config = load_chat_config(chat_id);
\* primary_branch = global_config.get("PRIMARY_BRANCH", "main")
\* (None.get raises AttributeError for a chat without an entry)
configured_primary_branch(cfg) ==
  IF DOMAIN cfg = {} THEN "AttributeError"
  ELSE Get(cfg, "PRIMARY_BRANCH", "main")

\* git_operations.get_tracked_branches: the primary branch whose tip is read
lib_get_tracked_branches ==
  /\ primary_used' =
       [primary_used EXCEPT !.tracked = configured_primary_branch(chat_config)]
  /\ primary_used' # primary_used
  /\ UNCHANGED <<mainvars, chat_config, gate, toolvars>>

\* git_operations.perform_auto_merge: the primary branch merged into
lib_perform_auto_merge ==
  /\ primary_used' =
       [primary_used EXCEPT !.merge = configured_primary_branch(chat_config)]
  /\ primary_used' # primary_used
  /\ UNCHANGED <<mainvars, chat_config, gate, toolvars>>

\* ----------------------------------------------------------- compile gate
\* what the handling of one bundle gives: the compiler's exit status
\* (errors), "warning" in its stderr (warnings), an unexpected exception
\* inside the loop ("exc": the zip cannot be extracted, the compiler cannot be
\* started), or an exception while create_zip_files builds the archive
\* ("zip_exc": a mapping without "source", a file that cannot be read, a
\* zip_name in a directory that does not exist)
\* result.returncode != 0
HasErrors(o) == o \in {"err", "err_warn"}
\* "warning" in result.stderr.lower()
HasWarnings(o) == o \in {"warn", "err_warn"}

LANGUAGE_HANDLERS == {"rust", "cpp"}

GateResult(p, n, m) ==
  [pass |-> p, compiled |-> n, messages |-> m, raised |-> FALSE]
\* the call does not return: the exception propagates to the caller
GateRaised == [pass |-> FALSE, compiled |-> 0, messages |-> 0, raised |-> TRUE]

\* create_zip_files builds every archive before the first one is compiled;
\* nothing in it catches an exception
create_zip_files_raises(bundles) ==
  \E i \in 1..Len(bundles) : bundles[i] = "zip_exc"

\* main.py 258-297: the loop over the zip files; an error is reported and,
\* when allowed, the warnings of the same output are looked at next
RECURSIVE main_gate_loop(_, _, _, _)
main_gate_loop(config, bundles, i, msgs) ==
  IF i > Len(bundles)
  THEN GateResult(TRUE, Len(bundles), msgs)
  ELSE LET o == bundles[i]
           e == IF HasErrors(o) THEN 1 ELSE 0
           w == IF HasWarnings(o) THEN 1 ELSE 0
       IN  IF o = "exc" THEN GateResult(FALSE, i, msgs + 1)
           ELSE IF HasErrors(o) /\ ~config.ALLOW_ERRORS
           THEN GateResult(FALSE, i, msgs + 1)
           ELSE IF HasWarnings(o) /\ ~config.ALLOW_WARNINGS
           THEN GateResult(FALSE, i, msgs + e + 1)
           ELSE main_gate_loop(config, bundles, i + 1, msgs + e + w)

\* main.py check_for_compiler_errors(config): cargo check on every bundle,
\* whatever the language of the config
main_check_for_compiler_errors(config, bundles) ==
  IF create_zip_files_raises(bundles) THEN GateRaised
  ELSE main_gate_loop(config, bundles, 1, 0)

\* compilation_manager.py 42-87: handler.compile raises CompilationError
\* when the compiler fails (the warnings it collected are dropped), else it
\* returns the warnings
RECURSIVE manager_gate_loop(_, _, _, _)
manager_gate_loop(config, bundles, i, msgs) ==
  IF i > Len(bundles)
  THEN GateResult(TRUE, Len(bundles), msgs)
  ELSE LET o == bundles[i]
       IN  IF o = "exc" THEN GateResult(FALSE, i, msgs + 1)
           ELSE IF HasErrors(o)
           THEN IF ~config.ALLOW_ERRORS
                THEN GateResult(FALSE, i, msgs + 1)
                ELSE manager_gate_loop(config, bundles, i + 1, msgs + 1)
           ELSE IF HasWarnings(o)
           THEN IF ~config.ALLOW_WARNINGS
                THEN GateResult(FALSE, i, msgs + 1)
                ELSE manager_gate_loop(config, bundles, i + 1, msgs + 1)
           ELSE manager_gate_loop(config, bundles, i + 1, msgs)

\* compilation_manager.check_for_compiler_errors(chat_id, config, bot)
manager_check_for_compiler_errors(config, bundles) ==
  IF config.language = "none" THEN GateResult(FALSE, 0, 1)
  ELSE IF config.language \notin LANGUAGE_HANDLERS THEN GateResult(FALSE, 0, 1)
  ELSE IF create_zip_files_raises(bundles) THEN GateRaised
  ELSE manager_gate_loop(config, bundles, 1, 0)

BundleLists ==
  UNION {[1..n -> {"clean", "warn", "err", "err_warn", "exc", "zip_exc"}] :
           n \in 0..MaxBundles}

\* the gate of main.py is applied to the call
main_gate ==
  /\ gate.impl = "main" /\ ~gate.done
  /\ LET r == main_check_for_compiler_errors(gate, gate.bundles)
     IN  gate' = [gate EXCEPT !.done = TRUE, !.pass = r.pass,
                              !.compiled = r.compiled, !.messages = r.messages,
                              !.raised = r.raised]
  /\ UNCHANGED <<mainvars, chat_config, primary_used, toolvars>>

\* the gate of compilation_manager.py is applied to the call
manager_gate ==
  /\ gate.impl = "compilation_manager" /\ ~gate.done
  /\ LET r == manager_check_for_compiler_errors(gate, gate.bundles)
     IN  gate' = [gate EXCEPT !.done = TRUE, !.pass = r.pass,
                              !.compiled = r.compiled, !.messages = r.messages,
                              !.raised = r.raised]
  /\ UNCHANGED <<mainvars, chat_config, primary_used, toolvars>>

\* the state of main() at its start, with a call of the gate to be made
LibInit ==
  /\ pc = "loop"
  /\ exception = "none"
  /\ remote = [b \in Branches |->
                 IF b = PRIMARY_BRANCH THEN "c1"
                 ELSE IF b = "submit" THEN "c2" ELSE NoCommit]
  /\ origin = remote
  /\ localBr = remote
  /\ mergeInProgress = FALSE
  /\ last_commit_per_branch = [b \in Branches |-> NoCommit]
  /\ branches_to_check = << >>
  /\ branch = "none"
  /\ current_commit = NoCommit
  /\ submission_id = "none"
  /\ grouped_results = NoResult
  /\ polls = 0
  /\ gitLog = << >>
  /\ notified = 0
  /\ mergeSource = NoCommit
  /\ submitted = [c \in Commits |-> 0]
  /\ outstanding = {}
  /\ pushes = 0
  /\ nmerges = 0
  /\ kills = 0
  /\ chat_config = NoChatConfig
  /\ primary_used = NoPrimary
  /\ gate \in
       {[IdleGate EXCEPT !.impl = impl, !.language = l,
                         !.ALLOW_WARNINGS = aw, !.ALLOW_ERRORS = ae,
                         !.bundles = bs] :
          impl \in {"main", "compilation_manager"},
          l \in {"rust", "cpp", "java", "none"},
          aw \in BOOLEAN, ae \in BOOLEAN, bs \in BundleLists}
  /\ pack = IdlePack
  /\ CmpIdle
  /\ report = IdleReport
  /\ handling = IdleHandling
  /\ BotIdle

LibNext ==
  \/ complete_setup \/ handle_config_step
  \/ lib_get_tracked_branches \/ lib_perform_auto_merge
  \/ main_gate \/ manager_gate

LibSpec == LibInit /\ [][LibNext]_vars

\* the state of main() at its start
MainStart ==
  /\ pc = "loop"
  /\ exception = "none"
  /\ remote = [b \in Branches |->
                 IF b = PRIMARY_BRANCH THEN "c1"
                 ELSE IF b = "submit" THEN "c2" ELSE NoCommit]
  /\ origin = remote
  /\ localBr = remote
  /\ mergeInProgress = FALSE
  /\ last_commit_per_branch = [b \in Branches |-> NoCommit]
  /\ branches_to_check = << >>
  /\ branch = "none"
  /\ current_commit = NoCommit
  /\ submission_id = "none"
  /\ grouped_results = NoResult
  /\ polls = 0
  /\ gitLog = << >>
  /\ notified = 0
  /\ mergeSource = NoCommit
  /\ submitted = [c \in Commits |-> 0]
  /\ outstanding = {}
  /\ pushes = 0
  /\ nmerges = 0
  /\ kills = 0

\* ------------------------------------------------------------- the packager
\* The file system the packager runs in, seen from the working directory:
\*   repo/            the repository root
\*     f              a file
\*     d/f            a file in a directory
\*     lf -> out/f    a symbolic link to a file outside the repository
\*     ln -> out      a symbolic link to a directory outside the repository
\*     d/lf, d/ln     the same two links inside the directory d
\*   out/f            a file outside the repository
\* Files and directories are named by their canonical paths.
Dirs == {<< >>, <<"repo">>, <<"repo", "d">>, <<"out">>}
Files == {<<"repo", "f">>, <<"repo", "d", "f">>, <<"out", "f">>}
Links == {<<"repo", "lf">>, <<"repo", "ln">>,
          <<"repo", "d", "lf">>, <<"repo", "d", "ln">>}
LinkTarget(l) == IF l[Len(l)] = "lf" THEN <<"out", "f">> ELSE <<"out">>
\* the result of resolving a path that names nothing
Missing == <<"?">>

IsPrefix(a, b) == Len(a) <= Len(b) /\ SubSeq(b, 1, Len(a)) = a

\* posixpath.normpath, purely lexical: "." is dropped, "x/.." is collapsed,
\* a leading ".." of a relative path is kept and one of an absolute path is
\* dropped
RECURSIVE normparts(_, _, _, _)
normparts(abs, comps, i, new_comps) ==
  IF i > Len(comps) THEN new_comps
  ELSE LET comp == comps[i] IN
       IF comp = "." THEN normparts(abs, comps, i + 1, new_comps)
       ELSE IF comp # ".."
               \/ (~abs /\ new_comps = << >>)
               \/ (new_comps # << >> /\ new_comps[Len(new_comps)] = "..")
       THEN normparts(abs, comps, i + 1, Append(new_comps, comp))
       ELSE IF new_comps # << >>
       THEN normparts(abs, comps, i + 1,
                      SubSeq(new_comps, 1, Len(new_comps) - 1))
       ELSE normparts(abs, comps, i + 1, new_comps)

normpath(p) ==
  LET parts == normparts(p.abs, p.parts, 1, << >>)
  IN  IF ~p.abs /\ parts = << >> THEN Path(FALSE, <<".">>)
      ELSE Path(p.abs, parts)

\* os.path.join(a, b): an absolute b replaces a; nothing is normalised
join(a, b) == IF b.abs THEN b ELSE Path(a.abs, a.parts \o b.parts)

\* str.startswith on paths, taken component by component
startswith(p, prefix) == p.abs = prefix.abs /\ IsPrefix(prefix.parts, p.parts)

\* one step of the path walk of the operating system from the directory cur:
\* ".." is the parent of the directory reached so far and a symbolic link is
\* followed
step(cur, comp) ==
  IF cur \notin Dirs THEN Missing
  ELSE IF comp = "." THEN cur
  ELSE IF comp = ".."
  THEN IF cur = << >> THEN cur ELSE SubSeq(cur, 1, Len(cur) - 1)
  ELSE LET next == Append(cur, comp)
       IN  IF next \in Links THEN LinkTarget(next)
           ELSE IF next \in Dirs \cup Files THEN next
           ELSE Missing

\* the file or directory a path names (the working directory is the root of
\* the model's file system, so absolute and relative paths walk alike)
RECURSIVE resolve_from(_, _, _)
resolve_from(cur, parts, i) ==
  IF i > Len(parts) THEN cur
  ELSE resolve_from(step(cur, parts[i]), parts, i + 1)

resolve(p) == resolve_from(<< >>, p.parts, 1)

\* os.path.islink: lstat of the path; only its last component is not followed
islink(p) ==
  /\ p.parts # << >>
  /\ LET n == Len(p.parts)
         parent == resolve_from(<< >>, SubSeq(p.parts, 1, n - 1), 1)
     IN  /\ parent \in Dirs
         /\ p.parts[n] \notin {".", ".."}
         /\ Append(parent, p.parts[n]) \in Links

\* os.walk(source_path) without followlinks: the files below the directory,
\* through real subdirectories only; symlinked files are skipped
walk(p) == {f \in Files : IsPrefix(resolve(p), f)}

\* REPO_PATH of main.py is absolute, get_repo_path(chat_id) of
\* file_operations.py is relative to the working directory
repo_path(impl) == Path(impl = "main", <<"repo">>)

\* create_zip_files, for one path mapping: the files written to the archive
create_zip_files(impl, source) ==
  LET source_path == join(repo_path(impl), normpath(source))
  IN  IF ~startswith(source_path, repo_path(impl)) \/ islink(source_path)
      THEN {}
      ELSE IF resolve(source_path) \in Files    \* os.path.isfile
      THEN {resolve(source_path)}
      ELSE IF resolve(source_path) \in Dirs     \* os.path.isdir
      THEN walk(source_path)
      ELSE {}

MaxPathLen == 3

\* create_zip_files is applied to the include-path
pack_bundle ==
  /\ ~pack.done /\ pack.impl # "none"
  /\ pack' = [pack EXCEPT !.done = TRUE,
                          !.added = create_zip_files(pack.impl, pack.source)]
  /\ UNCHANGED <<mainvars, gatevars, cmpvars, report, handling, botvars>>

\* ----------------------------------------------------------- the comparator
\* results_utils.compare_results.  Runtimes are counted in hundredths of a
\* second: fetch_test_results formats them with two decimals and
\* parse_numeric_value reads the number back.
MaxCalls == 2
Groups == {"1", "2"}
TestNamesOf(g) == IF g = "1" THEN {"1a", "1b"} ELSE {"2a"}
\* the order of Python strings on the test names
NameRank(n) == IF n = "1a" THEN 1 ELSE IF n = "1b" THEN 2 ELSE 3

TestNames == UNION {TestNamesOf(g) : g \in Groups}
\* the test of that name is not in the report
Absent == [test_name |-> "absent", result |-> "none", runtime |-> 0]

\* the rows a report can hold for a test name
RowsOf(n) ==
  {[test_name |-> n, result |-> "OK", runtime |-> r] : r \in {1, 2}}
  \cup {[test_name |-> n, result |-> "Wrong answer", runtime |-> 1]}

\* the tests of one group of a report
GroupData(rows, g) == {rows[n] : n \in TestNamesOf(g)} \ {Absent}

\* a graded result: {"error": text} or group -> tests, a group being in
\* the dict when the report has a test of it.  A report has for every test
\* name a row or none, and at least one row.
GradedTests ==
  {[kind |-> "tests",
    groups |-> [g \in {x \in Groups : GroupData(rows, x) # {}} |->
                  GroupData(rows, g)]] :
     rows \in
       {rs \in [TestNames ->
                  UNION {RowsOf(n) : n \in TestNames} \cup {Absent}] :
          /\ \A n \in TestNames : rs[n] \in RowsOf(n) \cup {Absent}
          /\ \E n \in TestNames : rs[n] # Absent}}

RECURSIVE SumRuntime(_)
SumRuntime(ts) ==
  IF ts = {} THEN 0
  ELSE LET t == CHOOSE x \in ts : TRUE
       IN  t.runtime + SumRuntime(ts \ {t})

SolvedTests(ts) == {t \in ts : IsOk(t.result)}

\* sum(1 for group ... for test ... if test["result"].lower() == "ok")
successful_tests_of(groups) ==
  Cardinality(SolvedTests(UNION {groups[g] : g \in DOMAIN groups}))

\* sum(parse_numeric_value(test["runtime"]) for group ... for test ...)
runtime_of(groups) == SumRuntime(UNION {groups[g] : g \in DOMAIN groups})

\* max((test ... if ok), key=test_name, default=None)
last_solved_test(ts) ==
  IF SolvedTests(ts) = {} THEN NoTest
  ELSE CHOOSE t \in SolvedTests(ts) :
         \A u \in SolvedTests(ts) :
           NameRank(u.test_name) <= NameRank(t.test_name)

\* top_level with "no changes" only for a loss of tests
top_level_no_regression(diff_successful) ==
  IF diff_successful > 0 THEN "Improvement"
  ELSE IF diff_successful < 0 THEN "No Changes"
  ELSE "Regression"

\* results_utils.py 108-113
top_level(diff_successful) ==
  IF diff_successful > 0 THEN "Improvement"
  ELSE IF diff_successful < 0 THEN "Regression"
  ELSE "No Changes"

\* group_change that reports every change of the last solved test as an
\* improvement
group_change_unordered(prev_group_results, g, ts) ==
  LET last == last_solved_test(ts) IN
  IF g \in DOMAIN prev_group_results
  THEN LET prev_last == prev_group_results[g] IN
       IF last # NoTest /\ prev_last # NoTest
       THEN IF last.test_name = prev_last.test_name
            THEN IF last.runtime < prev_last.runtime THEN "Faster"
                 ELSE IF last.runtime > prev_last.runtime THEN "Slower"
                 ELSE "No Change"
            ELSE "Improved"
       ELSE IF last = NoTest /\ prev_last = NoTest THEN "No Changes"
       ELSE IF last # NoTest THEN "Improved"
       ELSE "Regressed"
  ELSE IF last # NoTest THEN "New group solved" ELSE "none"

\* results_utils.py 119-179: the line reported for one group of the current
\* result, "none" when nothing is reported
group_change(prev_group_results, g, ts) ==
  LET last == last_solved_test(ts) IN
  IF g \in DOMAIN prev_group_results
  THEN LET prev_last == prev_group_results[g] IN
       IF last # NoTest /\ prev_last # NoTest
       THEN IF last.test_name = prev_last.test_name
            THEN IF last.runtime < prev_last.runtime THEN "Faster"
                 ELSE IF last.runtime > prev_last.runtime THEN "Slower"
                 ELSE "No Change"
            ELSE IF NameRank(last.test_name) > NameRank(prev_last.test_name)
            THEN "Improved"
            ELSE "Regressed"
       ELSE IF last = NoTest /\ prev_last = NoTest THEN "No Changes"
       ELSE IF last # NoTest THEN "Improved"
       ELSE "Regressed"
  ELSE IF last # NoTest THEN "New group solved" ELSE "none"

\* results_utils.py 119-136: the loop assigns the runtime of a group's last
\* solved test to current_runtime when the stored snapshot has the same last
\* solved test; the value current_runtime has after the loop is stored
RECURSIVE runtime_after_loop(_, _, _, _, _)
runtime_after_loop(prev_group_results, groups, order, i, current_runtime) ==
  IF i > Len(order) THEN current_runtime
  ELSE LET g == order[i]
           last == last_solved_test(groups[g])
       IN  IF /\ g \in DOMAIN prev_group_results
              /\ last # NoTest /\ prev_group_results[g] # NoTest
              /\ last.test_name = prev_group_results[g].test_name
           THEN runtime_after_loop(prev_group_results, groups, order, i + 1,
                                   last.runtime)
           ELSE runtime_after_loop(prev_group_results, groups, order, i + 1,
                                   current_runtime)

\* results_utils.py 186-203: the entry written to the history
snapshot(groups, total_runtime) ==
  [present |-> TRUE,
   successful_tests |-> successful_tests_of(groups),
   total_runtime |-> total_runtime,
   group_results |-> [g \in DOMAIN groups |-> last_solved_test(groups[g])]]

\* compare_results(chat_id, contest_id, grouped_results): the summary and
\* the history entry after the call
compare_results(entry, results, order) ==
  IF results.kind = "error"
  THEN [stored |-> entry,
        summary |-> [NoComparison EXCEPT !.top = "Submission Failed"]]
  ELSE LET groups == results.groups
           current_successful == successful_tests_of(groups)
           current_runtime == runtime_of(groups)
       IN  IF entry.present
           THEN LET lines == [g \in DOMAIN groups |->
                                group_change(entry.group_results, g,
                                             groups[g])]
                IN  [stored |->
                       snapshot(groups,
                                runtime_after_loop(entry.group_results,
                                                   groups, order, 1,
                                                   current_runtime)),
                     summary |->
                       [top |-> top_level(current_successful
                                            - entry.successful_tests),
                        diff_successful |->
                          current_successful - entry.successful_tests,
                        diff_runtime |->
                          current_runtime - entry.total_runtime,
                        group_changes |->
                          [g \in {x \in DOMAIN groups : lines[x] # "none"} |->
                             lines[g]],
                        first_note |-> FALSE]]
           ELSE [stored |-> snapshot(groups, current_runtime),
                 summary |->
                   [top |-> "First Submission",
                    diff_successful |-> current_successful,
                    diff_runtime |-> 0,
                    group_changes |-> [g \in {} |-> "none"],
                    first_note |-> TRUE]]

\* send_results_summary_to_telegram calls compare_results with a result
compare ==
  /\ calls < MaxCalls
  /\ calls' = calls + 1
  /\ \E results \in GradedTests \cup {[NoGraded EXCEPT !.kind = "error"]} :
       \* the orders in which the dict of groups can be iterated
       \E order \in
            {o \in UNION {[1..n -> DOMAIN results.groups] :
                           n \in 0..Cardinality(Groups)} :
               /\ Len(o) = Cardinality(DOMAIN results.groups)
               /\ \A g \in DOMAIN results.groups :
                    \E i \in 1..Len(o) : o[i] = g} :
         LET r == compare_results(submission_history, results, order)
         IN  /\ submission_history' = r.stored
             /\ prev_data' = submission_history
             /\ graded' = results
             /\ comparison' = r.summary
  /\ UNCHANGED <<mainvars, gatevars, pack, report, handling, botvars>>

CmpInit ==
  /\ MainStart
  /\ chat_config = NoChatConfig
  /\ primary_used = NoPrimary
  /\ gate = IdleGate
  /\ pack = IdlePack
  /\ CmpIdle
  /\ report = IdleReport
  /\ handling = IdleHandling
  /\ BotIdle

CmpSpec == CmpInit /\ [][compare]_vars

\* ------------------------------------------------------ the report parser
\* fetch_test_results of api/oioioi.py and of main.py: the rows of the
\* report table are grouped by a key taken from the test name.  A test name
\* is the sequence of the characters of the second cell of its row.
MaxRows == 2

\* str.strip(): leading and trailing whitespace is removed
RECURSIVE lstrip(_)
lstrip(text) ==
  IF text # << >> /\ Head(text) = " " THEN lstrip(Tail(text)) ELSE text
RECURSIVE rstrip(_)
rstrip(text) ==
  IF text # << >> /\ text[Len(text)] = " "
  THEN rstrip(SubSeq(text, 1, Len(text) - 1)) ELSE text
strip(text) == rstrip(lstrip(text))

\* str.split(): the whitespace-delimited tokens; of a stripped text only the
\* first one is used
RECURSIVE first_token(_, _)
first_token(text, i) ==
  IF i > Len(text) \/ text[i] = " " THEN SubSeq(text, 1, i - 1)
  ELSE first_token(text, i + 1)
isdigit(c) == c \in {"3", "superscript 2"}

\* group_key = test_name.split()[0][0]; int(group_key) if it is a digit,
\* else "Other".  The value is the key or the exception raised; a text
\* without a token has no split()[0].
group_key(test_name) ==
  IF lstrip(test_name) = << >> THEN "IndexError"
  ELSE LET c == first_token(lstrip(test_name), 1)[1]
       IN  IF isdigit(c)
           THEN IF c = "superscript 2" THEN "ValueError" ELSE c
           ELSE "Other"

\* the rows whose test goes to the group k, in the order of the table
RECURSIVE tests_of_group(_, _, _)
tests_of_group(rows, k, i) ==
  IF i > Len(rows) THEN << >>
  ELSE IF group_key(strip(rows[i])) = k
  THEN <<i>> \o tests_of_group(rows, k, i + 1)
  ELSE tests_of_group(rows, k, i + 1)

\* fetch_test_results on a report with a table: the groups, or None when
\* the except clause around the parsing has caught an exception
fetch_test_results(rows) ==
  LET keys == {group_key(strip(rows[i])) : i \in 1..Len(rows)}
  IN  IF keys \cap {"IndexError", "ValueError"} # {}
      THEN [kind |-> "none", groups |-> [k \in {} |-> << >>]]
      ELSE [kind |-> "tests",
            groups |-> [k \in keys |-> tests_of_group(rows, k, 1)]]

\* the report table is fetched and parsed
parse_report ==
  /\ ~report.done /\ report.rows # << >>
  /\ LET r == fetch_test_results(report.rows)
     IN  report' = [report EXCEPT !.done = TRUE, !.kind = r.kind,
                                  !.groups = r.groups]
  /\ UNCHANGED <<mainvars, gatevars, pack, cmpvars, handling, botvars>>

\* ------------------------------------- notifications of a failed handling
\* main.py 39-58: a contest without an API key is reported to the user and
\* KeyError is raised
get_api_key_for_contest(has_key) ==
  [raised |-> ~has_key, messages |-> IF has_key THEN 0 ELSE 1]

\* main.py 302-358: submit_solution reports the missing key itself after
\* get_api_key_for_contest has; a submission the judge does not accept is
\* reported once.  failure is "none" when a submission id is returned.
submit_solution(has_key, accepted) ==
  LET key == get_api_key_for_contest(has_key)
  IN  IF key.raised
      THEN [failure |-> "api_key", messages |-> key.messages + 1]
      ELSE IF accepted
      THEN [failure |-> "none", messages |-> 0]
      ELSE [failure |-> "rejected", messages |-> 1]

\* main.py 863-884: the compile gate, the "Compilation Failed" message of
\* main() after the messages of the gate, then the submission.  The result
\* is the terminal failure of the commit and the notifications sent for it.
main_handle_commit(config, bundles, has_key, accepted) ==
  LET r == main_check_for_compiler_errors(config, bundles)
  IN  IF r.raised THEN [failure |-> "exception", notifications |-> 0]
      ELSE IF ~r.pass
      THEN [failure |-> "compilation", notifications |-> r.messages + 1]
      ELSE LET s == submit_solution(has_key, accepted)
           IN  [failure |-> s.failure, notifications |-> s.messages]

\* main() handles the commit from the gate to the submission
handle_commit ==
  /\ handling.started /\ ~handling.done
  /\ LET r == main_handle_commit(handling, handling.bundles,
                                 handling.has_key, handling.accepted)
     IN  handling' = [handling EXCEPT !.done = TRUE, !.failure = r.failure,
                                      !.notifications = r.notifications]
  /\ UNCHANGED <<mainvars, gatevars, pack, cmpvars, report, botvars>>



\* ------------------------------------------------------------ notifier
\* telegram.py 25 and main.py 99: Telegram's maximum message length
max_length == 4096
\* The text is given by its lines (message.split("\n")), a line by its
\* length; a line of length 0 is blank, the others hold no white space at
\* their ends.  A part is the sequence of its lines.
MaxLines == 3

\* len("\n".join(lines))
RECURSIVE len(_)
len(lines) ==
  IF lines = << >> THEN 0
  ELSE Head(lines) + (IF Len(lines) > 1 THEN 1 ELSE 0) + len(Tail(lines))

\* str.strip() of a text of lines: the blank lines at both ends go
RECURSIVE strip_lines(_)
strip_lines(lines) ==
  IF lines = << >> THEN << >>
  ELSE IF Head(lines) = 0 THEN strip_lines(Tail(lines))
  ELSE IF lines[Len(lines)] = 0
  THEN strip_lines(SubSeq(lines, 1, Len(lines) - 1))
  ELSE lines

\* telegram.py 34-56 and main.py 101-123: current_part holds the lines taken
\* so far, each followed by "\n"; it is finalised, stripped, when the next
\* line would pass the limit, and once more after the last line
RECURSIVE split_message_by_newline(_, _, _, _)
split_message_by_newline(lines, i, parts, current_part) ==
  IF i = 1 /\ len(lines) <= max_length THEN <<lines>>
  ELSE IF i > Len(lines)
  THEN IF current_part # << >>
       THEN Append(parts, strip_lines(current_part))
       ELSE parts
  ELSE IF len(current_part) + (IF current_part = << >> THEN 0 ELSE 1)
            + lines[i] + 1 > max_length
  THEN split_message_by_newline(lines, i + 1,
                                Append(parts, strip_lines(current_part)),
                                <<lines[i]>>)
  ELSE split_message_by_newline(lines, i + 1, parts,
                                Append(current_part, lines[i]))

\* send_message: the text is split and every part is posted; a failed post
\* is printed (telegram.py 91-99, main.py 139-148)
send_message ==
  /\ message.lines # << >> /\ ~message.done
  /\ message' = [message EXCEPT
                   !.done = TRUE,
                   !.parts = split_message_by_newline(message.lines, 1,
                                                      << >>, << >>)]
  /\ UNCHANGED <<mainvars, gatevars, pack, cmpvars, report, handling, store,
                 bot, shutdown_flag, fetch_fails>>

\* ------------------------------------------------------- the state store
\* git_operations.load_last_commit / save_last_commit and
\* results_utils.load_submission_history / save_submission_history keep one
\* JSON file each, keyed by str(chat_id).  A key of a Python dict is an int
\* or a str; Key gives its type and its text.
MaxCmds == 2
Key(t, v) == [t |-> t, v |-> v]

\* str(x), and what json.dump makes of a key: the text, as a str
str(k) == Key("str", k.v)

\* json.load(json.dump(d)) for one level of keys: every key becomes a str
json(d) ==
  [k \in {str(x) : x \in DOMAIN d} |-> d[CHOOSE x \in DOMAIN d : str(x) = k]]

\* git_operations.py 45-55
load_last_commit(file, chat_id, branch_name) ==
  IF str(chat_id) \in DOMAIN file /\ branch_name \in DOMAIN file[str(chat_id)]
  THEN file[str(chat_id)][branch_name]
  ELSE "None"

\* git_operations.py 58-74: the file after the call
save_last_commit(file, chat_id, branch_name, commit_hash) ==
  LET old == IF str(chat_id) \in DOMAIN file THEN file[str(chat_id)]
             ELSE [b \in {} |-> "None"]
      new == [b \in DOMAIN old \cup {branch_name} |->
                IF b = branch_name THEN commit_hash ELSE old[b]]
      last_commits == [t \in DOMAIN file \cup {str(chat_id)} |->
                         IF t = str(chat_id) THEN new ELSE file[t]]
  IN  json([t \in DOMAIN last_commits |-> json(last_commits[t])])

\* results_utils.py 232-238
load_submission_history(file, chat_id) ==
  IF str(chat_id) \in DOMAIN file THEN file[str(chat_id)]
  ELSE [c \in {} |-> 0]

\* save_submission_history putting the tenant_history of the tenant in a new file
save_submission_history_alone(file, chat_id, tenant_history) ==
  json([t \in {str(chat_id)} |->
          json([c \in DOMAIN tenant_history |->
                  [tenant_history[c] EXCEPT !.group_results = json(@)]])])

\* results_utils.py 241-252: the file after the call
save_submission_history(file, chat_id, tenant_history) ==
  LET all_histories == [t \in DOMAIN file \cup {str(chat_id)} |->
                          IF t = str(chat_id) THEN tenant_history ELSE file[t]]
  IN  json([t \in DOMAIN all_histories |->
              json([c \in DOMAIN all_histories[t] |->
                      [all_histories[t][c] EXCEPT
                         !.group_results = json(@)]])])

\* the update of the tenant_history with the groups under the keys of the result
updated_history_raw_keys(tenant_history, contest_id, results) ==
  [c \in DOMAIN tenant_history \cup {contest_id} |->
     IF c = contest_id
     THEN [successful_tests |->
             Cardinality({g \in DOMAIN results :
                            results[g] # "None"}),
           group_results |-> results]
     ELSE tenant_history[c]]

\* results_utils.py 186-203: tenant_history[contest_id] = {...} with the groups
\* under str(group).  A graded result is given here by the last solved test
\* of each of its groups ("None": no test of the group is solved).
updated_history(tenant_history, contest_id, results) ==
  [c \in DOMAIN tenant_history \cup {contest_id} |->
     IF c = contest_id
     THEN [successful_tests |->
             Cardinality({g \in DOMAIN results :
                            results[g] # "None"}),
           group_results |->
             [k \in {str(g) : g \in DOMAIN results} |->
                results[CHOOSE g \in DOMAIN results :
                                  str(g) = k]]]
     ELSE tenant_history[c]]

\* the orchestrator saves the watch state of a branch_name of a tenant
write_commit ==
  /\ store.on /\ store.n < MaxCmds
  /\ \E chat_id \in {Key("int", "7"), Key("int", "-7")},
        branch_name \in {Key("str", "master"), Key("str", "submit")},
        commit_hash \in {"c1", "c2"} :
       store' = [store EXCEPT
                   !.n = @ + 1,
                   !.last_commits =
                     save_last_commit(@, chat_id, branch_name, commit_hash),
                   !.wrote = [kind |-> "commit", chat_id |-> chat_id,
                              key |-> branch_name, value |-> commit_hash]]
  /\ UNCHANGED <<mainvars, gatevars, pack, cmpvars, report, handling,
                 message, bot, shutdown_flag, fetch_fails>>

\* results_utils.py 81 and 186-204: compare_results loads the tenant_history of
\* the tenant, updates the entry of the contest and saves the tenant_history
write_history ==
  /\ store.on /\ store.n < MaxCmds
  /\ \E chat_id \in {Key("int", "7"), Key("int", "-7")},
        contest_id \in {Key("str", "k1"), Key("str", "k2")},
        groups \in SUBSET {Key("int", "1"), Key("str", "Other")} \ {{}} :
       \E results \in [groups -> {"None", "1a"}] :
         LET tenant_history ==
               updated_history(load_submission_history(store.histories,
                                                       chat_id),
                               contest_id, results)
         IN  store' = [store EXCEPT
                         !.n = @ + 1,
                         !.histories =
                           save_submission_history(@, chat_id, tenant_history),
                         !.wrote = [kind |-> "history", chat_id |-> chat_id,
                                    key |-> contest_id, value |-> tenant_history]]
  /\ UNCHANGED <<mainvars, gatevars, pack, cmpvars, report, handling,
                 message, bot, shutdown_flag, fetch_fails>>

\* ------------------------------------------------ the commands of the bot
\* user_message_handler.py.  bot.configs is data/config.json (str(chat_id) ->
\* configuration), bot.files the files under data/<chat_id>/, bot.state and
\* bot.config_step are context.user_data of the chat "7" that sends the
\* updates, bot.log the updates handled so far.  "8" is another tenant.
MaxMsgs == 3

\* user_message_handler.py 35-47
ensure_user_setup(configs, chat_id) ==
  /\ chat_id \in DOMAIN configs
  /\ Get(configs[chat_id], "setup_complete", "false") = "true"

\* user_message_handler.py 78-106: /add_chat_id [arg]
add_chat_id ==
  /\ bot.on /\ Len(bot.log) < MaxMsgs
  /\ \E args \in {<< >>, <<<<"3">>>>, <<<<"-", "3">>>>, <<<<"a">>>>} :
       LET chat_id == "7"
           \* args[0].lstrip("-")
           k == CHOOSE k \in 0..Len(args[1]) :
                  /\ \A i \in 1..k : args[1][i] = "-"
                  /\ k = Len(args[1]) \/ args[1][k + 1] # "-"
           stripped == SubSeq(args[1], k + 1, Len(args[1]))
           usage == \/ args = << >>
                    \/ stripped = << >>
                    \/ \E i \in 1..Len(stripped) : ~isdigit(stripped[i])
           new_chat_id == args[1]
           broadcast_list ==
             Get(bot.configs[chat_id], "broadcast_chat_ids", << >>)
           b == [bot EXCEPT !.log = Append(@, [cmd |-> "/add_chat_id",
                                               args |-> args, text |-> "",
                                               deleted |-> FALSE])]
       IN  bot' =
             IF \/ ~ensure_user_setup(bot.configs, chat_id)
                \/ usage
                \/ \E i \in 1..Len(broadcast_list) :
                     broadcast_list[i] = new_chat_id
             THEN b
             ELSE [b EXCEPT !.configs[chat_id] =
                     save_chat_config(@,
                       [broadcast_chat_ids |->
                          Append(broadcast_list, new_chat_id)])]
  /\ UNCHANGED <<mainvars, gatevars, pack, cmpvars, report, handling, message,
                 store, shutdown_flag, fetch_fails>>

\* user_message_handler.py 109-137: /remove_chat_id [arg]
remove_chat_id ==
  /\ bot.on /\ Len(bot.log) < MaxMsgs
  /\ \E args \in {<< >>, <<<<"3">>>>, <<<<"-", "3">>>>, <<<<"a">>>>} :
       LET chat_id == "7"
           usage == \/ args = << >>
                    \/ args[1] = << >>
                    \/ \E i \in 1..Len(args[1]) : ~isdigit(args[1][i])
           broadcast_list ==
             Get(bot.configs[chat_id], "broadcast_chat_ids", << >>)
           \* list.remove: the first occurrence goes
           first == CHOOSE i \in 1..Len(broadcast_list) :
                      /\ broadcast_list[i] = args[1]
                      /\ \A j \in 1..(i - 1) : broadcast_list[j] # args[1]
           b == [bot EXCEPT !.log = Append(@, [cmd |-> "/remove_chat_id",
                                               args |-> args, text |-> "",
                                               deleted |-> FALSE])]
       IN  bot' =
             IF \/ ~ensure_user_setup(bot.configs, chat_id)
                \/ usage
                \/ \A i \in 1..Len(broadcast_list) :
                     broadcast_list[i] # args[1]
             THEN b
             ELSE [b EXCEPT !.configs[chat_id] =
                     save_chat_config(@,
                       [broadcast_chat_ids |->
                          SubSeq(broadcast_list, 1, first - 1)
                            \o SubSeq(broadcast_list, first + 1,
                                      Len(broadcast_list))])]
  /\ UNCHANGED <<mainvars, gatevars, pack, cmpvars, report, handling, message,
                 store, shutdown_flag, fetch_fails>>

\* file_operations.py 78-99: the key files are removed, or the credentials
\* are popped from the loaded configuration, which save_chat_config then
\* merges into the stored one
delete_old_auth_data(b, chat_id) ==
  LET current_config == b.configs[chat_id]
      auth_method == Get(current_config, "auth_method", "None")
      popped ==
        IF auth_method = "https"
        THEN [key \in DOMAIN current_config \ {"git_username", "git_password"}
                |-> current_config[key]]
        ELSE current_config
  IN  [b EXCEPT
         !.files = IF auth_method = "ssh"
                   THEN @ \ {<<chat_id, "id_rsa">>, <<chat_id, "id_rsa.pub">>}
                   ELSE @,
         !.configs[chat_id] = save_chat_config(@, popped)]

\* user_message_handler.py 472, 484-499: handle_config_step at the step
\* update_value with the key auth_method; the steps that follow for ssh and
\* https are not followed here
update_auth_method(b, chat_id, new_value) ==
  LET d == delete_old_auth_data(b, chat_id)
  IN  [d EXCEPT
         !.configs[chat_id] = save_chat_config(@, [auth_method |-> new_value]),
         !.state = IF new_value = "none" THEN "None" ELSE @,
         !.config_step = CASE new_value = "ssh" -> "ssh_generate"
                           [] new_value = "https" -> "git_username"
                           [] new_value = "none" -> "None"
                           [] OTHER -> @]

\* user_message_handler.py 780-788.  git_operations does not define
\* delete_last_commit_data: the call raises, or the function exists and the
\* directory of the chat is removed after it.
delete_user_data(b, chat_id, raised) ==
  [b EXCEPT
     !.configs = [t \in DOMAIN @ \ {chat_id} |-> @[t]],
     !.files = IF raised THEN @ ELSE {f \in @ : f[1] # chat_id},
     !.log[Len(b.log)].deleted = TRUE]

\* the mutant of delete: `no` and `cancel` do not reset the conversation
delete_ignoring_no(b, chat_id, text, raised) ==
  IF b.state = "deleting"
  THEN IF text \in {"yes", "confirm"}
       THEN [delete_user_data(b, chat_id, raised) EXCEPT
               !.state = "None", !.config_step = "None"]
       ELSE b
  ELSE [b EXCEPT !.state = "deleting"]

\* user_message_handler.py 608-634; text is update.message.text.strip().lower()
\* and reset_user_data (163-178) pops state and config_step
delete(b, chat_id, text, raised) ==
  IF b.state = "deleting"
  THEN IF text \in {"yes", "confirm"}
       THEN [delete_user_data(b, chat_id, raised) EXCEPT
               !.state = "None", !.config_step = "None"]
       ELSE IF text \in {"no", "cancel"}
       THEN [b EXCEPT !.state = "None", !.config_step = "None"]
       ELSE b
  ELSE [b EXCEPT !.state = "deleting"]

\* user_message_handler.py 816: CommandHandler("delete", delete)
delete_command ==
  /\ bot.on /\ Len(bot.log) < MaxMsgs
  /\ \E raised \in BOOLEAN :
       bot' = delete([bot EXCEPT !.log = Append(@, [cmd |-> "/delete",
                                                    args |-> << >>,
                                                    text |-> "/delete",
                                                    deleted |-> FALSE])],
                     "7", "/delete", raised)
  /\ UNCHANGED <<mainvars, gatevars, pack, cmpvars, report, handling, message,
                 store, shutdown_flag, fetch_fails>>

\* user_message_handler.py 388-414: a text that is not a command
handle_message ==
  /\ bot.on /\ Len(bot.log) < MaxMsgs
  /\ \/ bot.state \in {"None", "deleting"}
     \/ bot.state = "configuring" /\ bot.config_step = "update_value"
  /\ \E text \in {"yes", "YES", "confirm", "no", "cancel", "ssh", "none"},
        raised \in BOOLEAN :
       LET lower == IF text = "YES" THEN "yes" ELSE text
           b == [bot EXCEPT !.log = Append(@, [cmd |-> "text",
                                               args |-> << >>, text |-> text,
                                               deleted |-> FALSE])]
       IN  bot' = CASE bot.state = "configuring" ->
                         update_auth_method(b, "7", text)
                    [] bot.state = "deleting" -> delete(b, "7", lower, raised)
                    [] OTHER -> b
  /\ UNCHANGED <<mainvars, gatevars, pack, cmpvars, report, handling, message,
                 store, shutdown_flag, fetch_fails>>

\* user_message_handler.py 637-642: /abort
abort ==
  /\ bot.on /\ Len(bot.log) < MaxMsgs
  /\ bot' = [bot EXCEPT !.state = "None", !.config_step = "None",
                        !.log = Append(@, [cmd |-> "/abort", args |-> << >>,
                                           text |-> "/abort",
                                           deleted |-> FALSE])]
  /\ UNCHANGED <<mainvars, gatevars, pack, cmpvars, report, handling, message,
                 store, shutdown_flag, fetch_fails>>

\* the store from the files not existing, or the bot with a configuration
\* file: the chat "7" has no entry, an entry of an unfinished setup or a
\* complete one, and may be about to answer /config with the new auth_method
BotInit ==
  /\ MainStart
  /\ chat_config = NoChatConfig
  /\ primary_used = NoPrimary
  /\ gate = IdleGate
  /\ pack = IdlePack
  /\ CmpIdle
  /\ report = IdleReport
  /\ handling = IdleHandling
  /\ message = [lines |-> << >>, done |-> FALSE, parts |-> << >>]
  /\ \/ /\ store = [NoStore EXCEPT !.on = TRUE]
        /\ bot = NoBot
     \/ /\ store = NoStore
        /\ \E own \in {"absent", "unfinished", "none", "https", "ssh"},
              state \in {"None", "configuring"} :
             LET other == [setup_complete |-> "true", auth_method |-> "https",
                           git_username |-> "u8", git_password |-> "p8",
                           broadcast_chat_ids |-> <<<<"3">>>>]
                 base == [setup_complete |-> "true", auth_method |-> own,
                          repo_url |-> "r7"]
                 config ==
                   CASE own = "unfinished" -> [repo_url |-> "r7"]
                     [] own = "https" ->
                          save_chat_config(base, [git_username |-> "u7",
                                                  git_password |-> "p7"])
                     [] OTHER -> base
             IN  /\ state = "configuring" => own \in {"none", "https", "ssh"}
                 /\ bot =
                      [NoBot EXCEPT
                         !.on = TRUE,
                         !.configs =
                           [t \in IF own = "absent" THEN {"8"}
                                  ELSE {"7", "8"} |->
                              IF t = "8" THEN other ELSE config],
                         !.files =
                           {<<"8", "id_rsa">>, <<"8", "id_rsa.pub">>,
                            <<"8", "repo">>}
                             \cup (IF own = "absent" THEN {}
                                   ELSE {<<"7", "repo">>})
                             \cup (IF own = "ssh"
                                   THEN {<<"7", "id_rsa">>,
                                         <<"7", "id_rsa.pub">>}
                                   ELSE {}),
                         !.state = state,
                         !.config_step =
                           IF state = "configuring" THEN "update_value"
                           ELSE "None"]
  /\ shutdown_flag = FALSE
  /\ fetch_fails = FALSE

BotNext ==
  \/ write_commit \/ write_history
  \/ add_chat_id \/ remove_chat_id \/ delete_command \/ handle_message
  \/ abort

BotSpec == BotInit /\ [][BotNext]_vars

\* ------------------------------------------------- single calls, drawn
\* one call of create_zip_files, of fetch_test_results or of the handling of
\* a commit is drawn; the actions apply the functions to it
ToolInit ==
  /\ MainStart
  /\ chat_config = NoChatConfig
  /\ primary_used = NoPrimary
  /\ gate = IdleGate
  /\ CmpIdle
  /\ \/ /\ pack \in
             {[IdlePack EXCEPT !.impl = impl, !.source = Path(abs, parts)] :
                impl \in {"main", "file_operations"}, abs \in BOOLEAN,
                parts \in
                  UNION {[1..n -> {"f", "d", "lf", "ln", "..", "out", "repo"}] :
                           n \in 1..MaxPathLen}}
        /\ report = IdleReport
        /\ handling = IdleHandling
        /\ BotIdle
     \/ /\ pack = IdlePack
        /\ report = IdleReport
        /\ handling = IdleHandling
        /\ message \in
             {[lines |-> ls, done |-> FALSE, parts |-> << >>] :
                ls \in UNION {[1..n -> {0, 1, 4094, 4095, 4096, 4097}] :
                                n \in 1..MaxLines}}
        /\ store = NoStore
        /\ bot = NoBot
        /\ shutdown_flag = FALSE
        /\ fetch_fails = FALSE
     \/ /\ pack = IdlePack
        \* the cells hold a decimal digit, a letter, a blank or a superscript
        \* digit, for which str.isdigit() is true and int() raises ValueError
        /\ report \in
             {[IdleReport EXCEPT !.rows = rows] :
                rows \in
                  UNION {[1..n ->
                            UNION {[1..m -> {"3", "a", " ", "superscript 2"}] :
                                     m \in 0..2}] : n \in 1..MaxRows}}
        /\ handling = IdleHandling
        /\ BotIdle
     \/ /\ pack = IdlePack
        /\ report = IdleReport
        /\ handling \in
             {[IdleHandling EXCEPT !.ALLOW_WARNINGS = aw, !.ALLOW_ERRORS = ae,
                                   !.bundles = bs, !.has_key = k,
                                   !.accepted = a, !.started = TRUE] :
                aw \in BOOLEAN, ae \in BOOLEAN, bs \in BundleLists,
                k \in BOOLEAN, a \in BOOLEAN}
        /\ BotIdle

ToolNext == pack_bundle \/ parse_report \/ handle_commit \/ send_message

ToolSpec == ToolInit /\ [][ToolNext]_vars

\* ========================================================== the claims
HandlingPcs ==
  {"new_commit", "compile", "submit", "wait", "check_merge"} \cup MergePcs

\* the places of main() where the handling of a commit is complete:
\* the explicit skip, the failed gate, the rejected submission, the retrieved
\* result (with or without the auto-merge that follows it)
FullyHandled ==
  \/ /\ pc = "new_commit"
     /\ LET config == load_config_from_commit(current_commit)
        IN  ~config.present \/ ~config.AUTOCOMMIT
  \/ pc = "compile"
  \/ pc = "submit" /\ submission_id = "none"
  \/ pc = "wait" /\ submission_id # "none"
  \/ pc = "check_merge"
  \/ pc = "m_ret"

\* C1: the watch state changes only in a step of the orchestrator that ends the
\* handling of the commit (skip, terminal failure, processed submission), and
\* then only the entry of the handled branch changes, to the handled commit;
\* a step in which the process fails (a git command raising, a crash, a kill)
\* leaves the watch state as it was, with the handled commit still new.
C1_WatchStateOnlyWhenHandled ==
  /\ [][last_commit_per_branch' # last_commit_per_branch =>
          /\ FullyHandled
          /\ pc' = "for" /\ exception' = "none"
          /\ last_commit_per_branch' =
               [last_commit_per_branch EXCEPT ![branch] = current_commit]]_vars
  /\ [][pc' = "down" =>
          /\ last_commit_per_branch' = last_commit_per_branch
          /\ pc \in HandlingPcs => last_commit_per_branch'[branch] # current_commit]_vars

\* C1 witness: a git command failed while a new commit was handled, after the
\* other branch had been processed; the failed branch is still unprocessed.
C1_Witness ==
  /\ pc = "down" /\ exception = "CalledProcessError"
  /\ \E b \in Branches : last_commit_per_branch[b] = origin[b]
  /\ \E b \in Branches :
       origin[b] # NoCommit /\ last_commit_per_branch[b] # origin[b]

C3_OutstandingSubmissionKnown ==
  pc # "down" =>
    \A c \in outstanding : submission_id # "none" /\ current_commit = c

\* C4 (as stated): the results of a submission are fetched at most once
\* before control returns to the tick.
C4_FetchedAtMostOncePerTick == polls <= 1

\* C5 (as stated): the step that looks at an error result of a graded branch
\* raises nothing and marks the commit processed.
C5_ErrorResultFinalises ==
  [][(pc = "check_merge" /\ grouped_results = ErrorResult /\ pc' # pc) =>
       /\ exception' \in {"none", "killed"}
       /\ exception' = "none" =>
            last_commit_per_branch' =
              [last_commit_per_branch EXCEPT ![branch] = current_commit]]_vars

\* C6: whenever the merge procedure runs, the graded branch is the configured
\* auto_merge_branch and no verdict of the graded result contains "error";
\* and the procedure is entered from the merge decision only.
C6_MergeOnlyWhenBranchAndNoError ==
  pc \in MergePcs =>
    /\ branch = load_config_from_commit(current_commit).auto_merge_branch
    /\ grouped_results.kind = "tests"
    /\ \A i \in 1..Len(grouped_results.verdicts) :
         grouped_results.verdicts[i] # "Runtime error"

\* C6 witness: the merge procedure was entered for the graded submit branch
C6_Witness ==
  /\ pc = "m_fetch" /\ branch = "submit"
  /\ grouped_results = TestResult(<<"OK", "OK">>)

\* the merge procedure has returned after a successful push
PushedMerge ==
  /\ pc = "m_ret"
  /\ gitLog # << >>
  /\ gitLog[Len(gitLog)] = <<"push", "ok">>

\* C7 (as stated): a merge is pushed only if every verdict of the graded
\* result is "OK".
C7_PushOnlyWhenAllOk ==
  PushedMerge =>
    \A i \in 1..Len(grouped_results.verdicts) : IsOk(grouped_results.verdicts[i])

HasEntry(cmd) == \E i \in 1..Len(gitLog) : gitLog[i][1] = cmd
MergeReported(outcomes) ==
  \E i \in 1..Len(gitLog) : gitLog[i][1] = "merge" /\ gitLog[i][2] \in outcomes

\* C8 (as stated): once the merge step has reported a conflict, no commit and
\* no push is issued, and when the procedure returns the abort was issued,
\* the tenant was notified and, the abort having succeeded, no merge is left
\* in progress.
C8_ConflictAborts ==
  MergeReported({"conflict_stdout", "conflict_stderr"}) =>
    /\ ~HasEntry("commit") /\ ~HasEntry("push")
    /\ pc = "m_ret" =>
         /\ HasEntry("merge --abort")
         /\ notified >= 1
         /\ gitLog[Len(gitLog)] = <<"merge --abort", "ok">> => ~mergeInProgress

StepOrder == <<"fetch", "checkout -B", "checkout", "pull", "merge", "commit", "push">>

\* C9 (as stated): the commands are issued in the fixed order, a command is
\* issued only after the one before it has succeeded, and a procedure that
\* returns after a failed command has notified the tenant.
C9_FailedStepAbortsRest ==
  /\ \A i \in 1..Len(gitLog) :
       gitLog[i][1] # "merge --abort" =>
         /\ i <= Len(StepOrder) /\ gitLog[i][1] = StepOrder[i]
         /\ i > 1 => gitLog[i - 1][2] = "ok"
  /\ (pc = "m_ret" /\ ~PushedMerge) => notified >= 1

\* C10: the commit merged and pushed is the commit that was submitted and
\* graded, whatever the remote submit branch points at by then.
C10_MergedIsJudged ==
  /\ pc \in {"m_commit", "m_push"} /\ mergeSource # NoCommit =>
       mergeSource = current_commit
  /\ PushedMerge => mergeSource = current_commit

\* C10 witness: a merge was pushed after the remote submit branch had moved
\* away from the judged commit
C10_Witness ==
  /\ PushedMerge
  /\ remote[branch] # current_commit
  /\ origin[branch] # current_commit


\* C11 (as stated): an exception raised while a commit is handled is turned
\* into a backoff record at the loop: the step that raises it returns control
\* to the loop, which skips the ticks of the cooldown and processes again.
C11_ExceptionLeadsToBackoff ==
  [][(pc \in HandlingPcs /\ exception' \notin {"none", "killed"}) =>
       pc' \in {"loop", "for"}]_vars

\* C12 (as stated): no error raised while processing terminates the control
\* loop: the process ends only when it is killed from outside.
C12_LoopNeverTerminatedByError ==
  pc = "down" => exception = "killed"


\* a step of the program, not of its environment (push to the remote, kill)
ProgramStep == pushes' = pushes /\ kills' = kills

\* C13: an error local to one branch ends the handling of that branch only.
\* A branch that is missing on the remote is passed over and the rest of the
\* list is kept; a handling that ends without an exception (skip, failed
\* gate, rejected submission, failed or finished merge) returns to the for
\* loop with the rest of the list untouched; the for loop takes the branches
\* one by one and the tick ends only when the list is exhausted.
C13_BranchErrorIsLocal ==
  /\ [][(ProgramStep /\ pc = "for" /\ branches_to_check # << >>) =>
          /\ pc' \in {"for", "new_commit"}
          /\ branches_to_check' = Tail(branches_to_check)]_vars
  /\ [][(ProgramStep /\ pc \in HandlingPcs /\ pc' \notin HandlingPcs
           /\ exception' = "none") =>
          /\ pc' = "for"
          /\ branches_to_check' = branches_to_check]_vars
  /\ [][(pc = "for" /\ pc' = "loop") => branches_to_check = << >>]_vars

\* C13 witness: in a tick that tracks master, gone and submit, the branch
\* gone was not found on the remote and the new commit on submit, the branch
\* after it, is being processed.
C13_Witness ==
  /\ pc = "new_commit" /\ branch = "submit"
  /\ get_tracked_branches(origin) = <<"master", "gone", "submit">>
  /\ origin["gone"] = NoCommit
  /\ branches_to_check = << >>


\* C14: when the for loop looks at a tracked branch, a branch whose remote
\* commit cannot be resolved or equals the watch state is passed over with
\* nothing done (no watch-state write, no submission, no git state changed);
\* exactly a resolved commit that differs from the watch state (or a branch
\* without watch state) starts the processing of that commit.
C14_CommitDetection ==
  [][(ProgramStep /\ pc = "for" /\ branches_to_check # << >>) =>
       LET b == Head(branches_to_check)
           c == origin[b]
       IN  /\ UNCHANGED <<last_commit_per_branch, submitted, outstanding,
                          localBr, origin, remote>>
           /\ IF c # NoCommit /\ c # last_commit_per_branch[b]
              THEN pc' = "new_commit" /\ branch' = b /\ current_commit' = c
              ELSE pc' = "for" /\ current_commit' = NoCommit]_vars

\* C14 witness: the for loop has passed over the unresolved branch gone,
\* which has no watch state, and stands before submit, whose remote commit
\* equals its watch state.
C14_Witness ==
  /\ pc = "for" /\ branches_to_check = <<"submit">>
  /\ origin["gone"] = NoCommit /\ last_commit_per_branch["gone"] = NoCommit
  /\ origin["submit"] # NoCommit
  /\ last_commit_per_branch["submit"] = origin["submit"]


\* C15: for a new commit whose config is missing or has no true AUTOCOMMIT,
\* the step that follows the reading of the commit message advances the watch
\* state of the branch to the commit and returns to the for loop: no
\* exception, no compile gate, no submission, no git state changed.
C15_ExplicitSkip ==
  [][(ProgramStep /\ pc = "new_commit" /\ exception' # "CalledProcessError"
        /\ LET config == load_config_from_commit(current_commit)
           IN  ~config.present \/ ~config.AUTOCOMMIT) =>
       /\ last_commit_per_branch' =
            [last_commit_per_branch EXCEPT ![branch] = current_commit]
       /\ pc' = "for" /\ exception' = "none"
       /\ UNCHANGED <<submitted, outstanding, localBr, origin, remote,
                      mergeInProgress, branches_to_check>>]_vars

\* C15 witness: the watch state of a branch stands at c4, the commit whose
\* config has no AUTOCOMMIT, and c4 was never submitted.
C15_Witness ==
  /\ pc = "for" /\ exception = "none"
  /\ \E b \in Branches : last_commit_per_branch[b] = "c4"
  /\ submitted["c4"] = 0


\* C16 (as stated): discovery returns the branches of the config at the tip
\* of the primary branch when the config exists and has the field; otherwise
\* it returns the list holding only the primary branch and a warning is sent
\* to the user.
C16_TrackedBranchDiscovery ==
  [][(pc = "loop" /\ pc' = "for") =>
       LET c == origin'[PRIMARY_BRANCH]
           config == load_config_from_commit(c)
       IN  IF c # NoCommit /\ config.present /\ config.has_branches
           THEN branches_to_check' = config.branches
           ELSE /\ branches_to_check' = <<PRIMARY_BRANCH>>
                /\ get_tracked_branches_messages(origin') >= 1]_vars


\* C17 (as stated): the primary branch that discovery and auto-merge use is
\* the one the tenant configured, whenever the tenant configured one.
C17_ConfiguredPrimaryBranchUsed ==
  [][\A f \in {"tracked", "merge"} :
       (primary_used'[f] # primary_used[f]
          /\ "primary_branch" \in DOMAIN chat_config) =>
       primary_used'[f] = chat_config["primary_branch"]]_vars

\* no bundle of the list ends in the handler of unexpected exceptions
NoUnexpectedException(bundles) ==
  \A i \in 1..Len(bundles) : bundles[i] \notin {"exc", "zip_exc"}

\* C18 (as stated): for a registered language and bundles that compile
\* without an unexpected exception, the gate passes iff no bundle fails the
\* decision table (warnings without errors while warnings are not allowed,
\* or errors while errors are not allowed), and it compiles the bundles in
\* order up to and including the first failing one.
C18_GateFollowsDecisionTable ==
  (gate.done /\ gate.language \in LANGUAGE_HANDLERS
     /\ NoUnexpectedException(gate.bundles)) =>
    LET TableFails(o) ==
          \/ HasWarnings(o) /\ ~HasErrors(o) /\ ~gate.ALLOW_WARNINGS
          \/ HasErrors(o) /\ ~gate.ALLOW_ERRORS
        failing == {i \in 1..Len(gate.bundles) : TableFails(gate.bundles[i])}
    IN  /\ gate.pass = (failing = {})
        /\ gate.compiled =
             IF failing = {} THEN Len(gate.bundles)
             ELSE CHOOSE i \in failing : \A j \in failing : i <= j

\* C19 (as stated): with ALLOW_ERRORS true, a compiled bundle that has errors
\* is never the bundle at which the gate stops, warnings or not.
C19_AllowedErrorsPass ==
  (gate.done /\ gate.ALLOW_ERRORS) =>
    \A i \in 1..Len(gate.bundles) :
      (HasErrors(gate.bundles[i]) /\ i <= gate.compiled) =>
        (i < gate.compiled \/ gate.pass)

\* C20 (as stated): with a language that is absent or not registered, the
\* gate of a config that names bundles fails, compiles no bundle and
\* notifies the tenant.
C20_UnknownLanguageFailsGate ==
  (gate.done /\ gate.language \notin LANGUAGE_HANDLERS
     /\ gate.bundles # << >>) =>
    ~gate.pass /\ gate.compiled = 0 /\ gate.messages >= 1

\* C21 (as stated): the gate is fail-closed.  When the handling of some
\* bundle raises an unexpected exception (while its archive is built, while
\* it is extracted or while the compiler runs) and no earlier bundle has
\* already ended the gate, the gate returns failure, whatever ALLOW_WARNINGS
\* and ALLOW_ERRORS are, and the exception does not leave the gate.
C21_GateFailClosed ==
  (gate.done /\ gate.language \in LANGUAGE_HANDLERS
     /\ \E i \in 1..Len(gate.bundles) :
          /\ gate.bundles[i] \in {"exc", "zip_exc"}
          /\ \A j \in 1..(i - 1) : gate.bundles[j] = "clean") =>
    ~gate.pass /\ ~gate.raised

\* the walk of the path from the working directory passes a symbolic link
RECURSIVE through_link(_, _, _)
through_link(cur, parts, i) ==
  IF i > Len(parts) \/ cur \notin Dirs THEN FALSE
  ELSE \/ (parts[i] \notin {".", ".."} /\ Append(cur, parts[i]) \in Links)
       \/ through_link(step(cur, parts[i]), parts, i + 1)

\* C22 (as stated): every file the packager adds for an include-path lies in
\* the repository root, and the include-path does not reach it through a
\* symbolic link.
C22_PackagerStaysInRepository ==
  (pack.done /\ pack.added # {}) =>
    /\ \A f \in pack.added : IsPrefix(<<"repo">>, f)
    /\ ~through_link(<< >>,
                     join(repo_path(pack.impl), pack.source).parts, 1)

\* the tests of a graded result, over all its groups
AllTests(result) == UNION {result.groups[g] : g \in DOMAIN result.groups}

\* C23: for a result with tests, the summary reports a first submission when
\* the contest had no stored entry; otherwise it reports an improvement iff
\* the number of tests with verdict ok exceeds the stored count, a regression
\* iff it is below the stored count, and "no changes" iff the two are equal.
C23_TopLevelComparison ==
  (calls > 0 /\ graded.kind = "tests") =>
    LET current_successful ==
          Cardinality({t \in AllTests(graded) : IsOk(t.result)})
        prev_successful == prev_data.successful_tests
    IN  IF ~prev_data.present
        THEN comparison.top = "First Submission"
        ELSE /\ comparison.top = "Improvement"
                  <=> current_successful > prev_successful
             /\ comparison.top = "Regression"
                  <=> current_successful < prev_successful
             /\ comparison.top = "No Changes"
                  <=> current_successful = prev_successful

\* C23 witness: a result with fewer solved tests than the stored entry has
\* been compared and was reported as a regression.
C23_Witness ==
  /\ calls > 0 /\ graded.kind = "tests" /\ prev_data.present
  /\ Cardinality({t \in AllTests(graded) : IsOk(t.result)})
       < prev_data.successful_tests
  /\ comparison.top = "Regression"


\* C24: for a result compared with a stored entry and each of its groups that
\* has a solved test, with L the solved test whose name is last in string
\* order: a group without an entry in the stored snapshot is reported as
\* "New group solved"; with P the stored last solved test of the group,
\* L = P by name gives the comparison of the two runtimes (Faster, Slower, No
\* Change), L > P gives Improved and L < P gives Regressed.
C24_PerGroupComparison ==
  (calls > 0 /\ graded.kind = "tests" /\ prev_data.present) =>
    \A g \in DOMAIN graded.groups :
      LET solved == {t \in graded.groups[g] : IsOk(t.result)}
          line == IF g \in DOMAIN comparison.group_changes
                  THEN comparison.group_changes[g] ELSE "none"
      IN  solved # {} =>
            LET L == CHOOSE t \in solved :
                       \A u \in solved :
                         NameRank(u.test_name) <= NameRank(t.test_name)
            IN  IF g \notin DOMAIN prev_data.group_results
                THEN line = "New group solved"
                ELSE LET P == prev_data.group_results[g] IN
                     P # NoTest =>
                       IF L.test_name = P.test_name
                       THEN line = IF L.runtime < P.runtime THEN "Faster"
                                   ELSE IF L.runtime > P.runtime THEN "Slower"
                                   ELSE "No Change"
                       ELSE IF NameRank(L.test_name) > NameRank(P.test_name)
                       THEN line = "Improved"
                       ELSE line = "Regressed"

\* C24 witness: in one comparison group 1 fell back from the stored last
\* solved test 1b to 1a and was reported as regressed, and group 2, which the
\* stored snapshot did not have, was reported as newly solved.
C24_Witness ==
  /\ calls > 0 /\ graded.kind = "tests" /\ prev_data.present
  /\ DOMAIN prev_data.group_results = {"1"}
  /\ prev_data.group_results["1"].test_name = "1b"
  /\ DOMAIN comparison.group_changes = {"1", "2"}
  /\ comparison.group_changes["1"] = "Regressed"
  /\ comparison.group_changes["2"] = "New group solved"
  /\ \E t \in graded.groups["1"] : t.test_name = "1a" /\ IsOk(t.result)


\* C25 (as stated): a group whose stored last solved test exists and which
\* has no solved test in the compared result is reported as regressed, both
\* when the group is in the result and when it is not.
C25_LostGroupIsRegression ==
  (calls > 0 /\ graded.kind = "tests" /\ prev_data.present) =>
    \A g \in DOMAIN prev_data.group_results :
      (/\ prev_data.group_results[g] # NoTest
       /\ \/ g \notin DOMAIN graded.groups
          \/ \A t \in graded.groups[g] : ~IsOk(t.result)) =>
        /\ g \in DOMAIN comparison.group_changes
        /\ comparison.group_changes[g] = "Regressed"


\* C26 (as stated): after every call of the comparator the stored entry is
\* the snapshot of the result of that call, whatever its kind: the entry
\* exists, counts the solved tests of that result and holds the last solved
\* test of each of its groups; an error result has no group and no solved
\* test.
C26_HistoryIsLastResult ==
  calls > 0 =>
    /\ submission_history.present
    /\ submission_history.successful_tests =
         Cardinality({t \in AllTests(graded) : IsOk(t.result)})
    /\ DOMAIN submission_history.group_results = DOMAIN graded.groups
    /\ \A g \in DOMAIN graded.groups :
         LET solved == {t \in graded.groups[g] : IsOk(t.result)}
         IN  IF solved = {}
             THEN submission_history.group_results[g] = NoTest
             ELSE submission_history.group_results[g] \in solved


\* C27 (as stated): the stored snapshot of a result with tests has
\* successful_tests equal to the number of its tests with verdict ok and
\* total_runtime equal to the sum of the runtimes of all its tests.
C27_SnapshotTotals ==
  (calls > 0 /\ graded.kind = "tests") =>
    /\ submission_history.successful_tests =
         Cardinality({t \in AllTests(graded) : IsOk(t.result)})
    /\ submission_history.total_runtime = SumRuntime(AllTests(graded))


\* C28 (as stated): a parsed report is not lost, every test of it is in
\* exactly one group, and that group is the leading character of the first
\* token of the test name when this is a decimal digit, and "Other" when
\* the name begins with another character that is not a digit or has no
\* token.
C28_GroupKeyDerivation ==
  report.done =>
    /\ report.kind = "tests"
    /\ \A i \in 1..Len(report.rows) :
         LET name == strip(report.rows[i])
             holding == {k \in DOMAIN report.groups :
                           \E j \in 1..Len(report.groups[k]) :
                             report.groups[k][j] = i}
         IN  /\ Cardinality(holding) = 1
             /\ (name # << >> /\ name[1] = "3") => holding = {"3"}
             /\ (name = << >> \/ name[1] = "a") => holding = {"Other"}


\* C29 (as stated): a commit whose handling ends in a terminal failure (the
\* compile gate fails, the API key is missing, the judge rejects the
\* submission) has produced exactly one notification of that failure.
C29_OneNotificationPerFailure ==
  (handling.done
     /\ handling.failure \in {"compilation", "api_key", "rejected"}) =>
    handling.notifications = 1


\* C30 (as stated): a tick that starts with no new commit on any tracked
\* branch (every tracked branch is missing on the remote or stands at its
\* watch state) sends no message to the user, neither from branch discovery
\* nor from the loop over the branches.
C30_QuietTickIsSilent ==
  [][(/\ pc = "loop" /\ pc' = "for"
      /\ \A i \in 1..Len(branches_to_check') :
           LET b == branches_to_check'[i]
           IN  origin'[b] = NoCommit \/ ~IsNewCommit(b, origin'[b])) =>
       get_tracked_branches_messages(origin')
         + for_loop_messages(origin', branches_to_check') = 0]_vars


\* C31: when submit_solution returns no submission id, the step records no
\* submission, awaits no result and starts no merge: it advances the watch
\* state of the branch to the commit and returns to the for loop, with the
\* git state unchanged.
C31_FailedSubmitMarksProcessed ==
  [][(ProgramStep /\ pc = "submit" /\ submission_id' = "none") =>
       /\ last_commit_per_branch' =
            [last_commit_per_branch EXCEPT ![branch] = current_commit]
       /\ pc' = "for" /\ exception' = "none"
       /\ UNCHANGED <<submitted, outstanding, localBr, origin, remote,
                      mergeInProgress, branches_to_check>>]_vars

\* C31 witness: the watch state of submit stands at a commit whose config
\* enables submission, the commit has no acknowledged submission and nothing
\* is awaited, while the commit on master was submitted in the same run.
C31_Witness ==
  /\ pc = "for" /\ exception = "none" /\ kills = 0
  /\ last_commit_per_branch["submit"] = "c2" /\ submitted["c2"] = 0
  /\ last_commit_per_branch["master"] = "c1" /\ submitted["c1"] = 1
  /\ outstanding = {}


C33_PartsWithinLimit ==
  message.done =>
    /\ \A k \in 1..Len(message.parts) :
         /\ len(message.parts[k]) <= max_length
         /\ message.parts[k] # << >>
    /\ \E cut \in [0..Len(message.parts) -> 0..Len(message.lines)] :
         /\ cut[0] = 0 /\ cut[Len(message.parts)] = Len(message.lines)
         /\ \A k \in 1..Len(message.parts) :
              /\ cut[k - 1] <= cut[k]
              /\ message.parts[k] =
                   SubSeq(message.lines, cut[k - 1] + 1, cut[k])


\* C34: what was saved last is what is loaded: load_last_commit returns the
\* commit given to the last save_last_commit for the tenant and the branch,
\* and load_submission_history returns the history the comparator gave to
\* the last save_submission_history for the tenant, key for key.
C34_StoreRoundTrip ==
  /\ store.wrote.kind = "commit" =>
       load_last_commit(store.last_commits, store.wrote.chat_id,
                        store.wrote.key) = store.wrote.value
  /\ store.wrote.kind = "history" =>
       load_submission_history(store.histories, store.wrote.chat_id)
         = store.wrote.value

\* C34 witness: the comparator has saved, for the tenant -7, a history
\* with two contests whose last result had the groups 1 and "Other".
C34_Witness ==
  /\ store.wrote.kind = "history"
  /\ store.wrote.chat_id = Key("int", "-7")
  /\ DOMAIN store.wrote.value = {Key("str", "k1"), Key("str", "k2")}
  /\ DOMAIN store.wrote.value[store.wrote.key].group_results
       = {Key("str", "1"), Key("str", "Other")}

\* C36: a write of the watch state changes no entry but the one of its
\* tenant and branch, and no history; a write of a history changes no entry
\* of another tenant or of another contest of the tenant, and no watch state.
C36_WritesAreTenantLocal ==
  [][store'.n = store.n + 1 =>
       LET w == store'.wrote
       IN  /\ \A t \in DOMAIN store.last_commits :
                \A b \in DOMAIN store.last_commits[t] :
                  \/ w.kind = "commit" /\ t = str(w.chat_id) /\ b = w.key
                  \/ /\ t \in DOMAIN store'.last_commits
                     /\ b \in DOMAIN store'.last_commits[t]
                     /\ store'.last_commits[t][b] = store.last_commits[t][b]
           /\ \A t \in DOMAIN store.histories :
                \A c \in DOMAIN store.histories[t] :
                  \/ w.kind = "history" /\ t = str(w.chat_id) /\ c = w.key
                  \/ /\ t \in DOMAIN store'.histories
                     /\ c \in DOMAIN store'.histories[t]
                     /\ store'.histories[t][c] = store.histories[t][c]]_vars

\* C36 witness: the history of the tenant 7 was written while the other
\* tenant had a history.
C36_Witness ==
  /\ store.wrote.kind = "history"
  /\ store.wrote.chat_id = Key("int", "7")
  /\ DOMAIN store.histories = {Key("str", "7"), Key("str", "-7")}


\* C35 (as stated): once the shutdown signal has been received, main() starts
\* no new tick and no new unit of work: it does not go on to the handling of
\* another commit, and it does not fetch the report of a submission again.
C35_NoNewWorkAfterSignal ==
  [][(shutdown_flag /\ shutdown_flag') =>
       /\ ~(pc = "loop" /\ pc' = "for")
       /\ ~(pc = "for" /\ pc' = "new_commit")
       /\ ~(pc = "wait" /\ pc' = "wait" /\ polls' # polls)]_vars

\* C37 (as stated): a fetch of the report that fails is not treated as "not
\* yet graded": wait_for_results does not answer it with another fetch, it
\* ends and the failure is reported.
C37_FailedFetchEndsTheWait ==
  [][(fetch_fails /\ pc = "wait" /\ polls' # polls) => pc' # "wait"]_vars

\* C38 (as stated): after delete_old_auth_data has been called for a tenant
\* whose stored auth_method is https (the tenant answers /config with the new
\* auth_method), the stored configuration of the tenant contains neither
\* git_username nor git_password.
C38_HttpsCredentialsDeleted ==
  [][(/\ bot.on /\ bot.state = "configuring"
      /\ Len(bot'.log) = Len(bot.log) + 1
      /\ bot'.log[Len(bot'.log)].cmd = "text"
      /\ Get(bot.configs["7"], "auth_method", "None") = "https")
     => DOMAIN bot'.configs["7"] \cap {"git_username", "git_password"} = {}
    ]_vars

\* C39 (as stated): a chat id that is in the broadcast list, where only
\* /add_chat_id has put it, is no longer in the list after /remove_chat_id
\* with the same argument.
C39_AcceptedIdsCanBeRemoved ==
  [][(/\ bot.on /\ Len(bot'.log) = Len(bot.log) + 1
      /\ bot'.log[Len(bot'.log)].cmd = "/remove_chat_id"
      /\ bot'.log[Len(bot'.log)].args # << >>
      /\ "7" \in DOMAIN bot.configs
      /\ \E i \in 1..Len(Get(bot.configs["7"], "broadcast_chat_ids", << >>)) :
           bot.configs["7"].broadcast_chat_ids[i] = bot'.log[Len(bot'.log)].args[1])
     => \A i \in 1..Len(bot'.configs["7"].broadcast_chat_ids) :
          bot'.configs["7"].broadcast_chat_ids[i] # bot'.log[Len(bot'.log)].args[1]
    ]_vars

====
